---- MODULE Spec2Model ----
(***************************************************************************)
(* pycel2sql: the Converter's tree walk (src/pycel2sql/_converter.py), the *)
(* dialect writers it calls and the three entry points of __init__.py,     *)
(* as a state machine.  One step of the machine is one step of a node      *)
(* handler: a write to the buffer, a child visit, a parameter append, a    *)
(* raise, a return, or one frame of exception unwinding.                   *)
(***************************************************************************)
EXTENDS Integers, Sequences, FiniteSets, TLC

(***************************************************************************)
(* Parse trees (lark Tree / Token), as the parser hands them over.         *)
(***************************************************************************)
Tok(type, text) == [type |-> type, text |-> text]
T(data, children) == [data |-> data, children |-> children]

IsTree(n) == "data" \in DOMAIN n
IsToken(n) == "type" \in DOMAIN n

None == [none |-> TRUE]

\* String literal tokens carry their source text as a sequence of characters
\* between the quotes, so that unquoting and escaping are computed.
StrTok(chars) == [type |-> "STRING_LIT", text |-> chars]

\* Concatenation of a sequence of strings, by halves.
RECURSIVE JoinRange(_, _, _)
JoinRange(ss, lo, hi) ==
    IF lo > hi THEN ""
    ELSE IF lo = hi THEN ss[lo]
    ELSE LET mid == (lo + hi) \div 2 IN JoinRange(ss, lo, mid) \o JoinRange(ss, mid + 1, hi)

Join(ss) == JoinRange(ss, 1, Len(ss))

\* The grammar's precedence chain: a node of each of these kinds with one
\* child only passes the visit on.
Chain == <<"expr", "conditionalor", "conditionaland", "relation", "addition",
           "multiplication", "unary", "member", "primary">>

RECURSIVE Lift(_, _, _)
\* x, whose place in the grammar is below level `to`, wrapped in the
\* single-child nodes of levels from..to.
Lift(from, to, x) ==
    IF from > to THEN x ELSE T(Chain[from], <<Lift(from + 1, to, x)>>)

Ident(name) == T("ident", <<Tok("IDENT", name)>>)
Lit(tok) == T("literal", <<tok>>)
\* an atom (identifier, literal, parenthesis, list) where an expr is expected
Atom(from, x) == Lift(from, 9, x)
\* a member-level node (method call, field access) where level `from` is expected
Mem(from, x) == Lift(from, 8, x)


(***************************************************************************)
(* Errors: ConversionError with its two messages.  A message is the        *)
(* sequence of the parts of the (f-)string that builds it: Txt for the     *)
(* constant text, Val for a value interpolated from the input.             *)
(***************************************************************************)
Txt(s) == [txt |-> s]
Val(s) == [val |-> s]

\* ConversionError.__init__: internal_details defaults to the user message
ConversionError(type, user_message, internal_details) ==
    [type |-> type,
     user_message |-> user_message,
     internal_details |-> IF internal_details = <<>> THEN user_message
                          ELSE internal_details]

(***************************************************************************)
(* Pure helpers of _converter.py                                           *)
(***************************************************************************)
IsRawString(text) ==
    /\ Len(text) >= 2
    /\ text[1] \in {"r", "R"}
    /\ text[2] \in {"\"", "'"}

IsTriple(s) ==
    /\ Len(s) >= 3
    /\ \/ (s[1] = "\"" /\ s[2] = "\"" /\ s[3] = "\"")
       \/ (s[1] = "'" /\ s[2] = "'" /\ s[3] = "'")

\* _strip_quotes, on the characters of the token
_strip_quotes(text) ==
    LET s == IF IsRawString(text) THEN Tail(text) ELSE text IN
    IF IsTriple(s) THEN SubSeq(s, 4, Len(s) - 3)
    ELSE IF Len(s) >= 1 /\ s[1] \in {"\"", "'"} THEN SubSeq(s, 2, Len(s) - 1)
    ELSE s

_is_string_token(token) == token.type \in {"STRING_LIT", "MLSTRING_LIT"}
_is_int_token(token) == token.type = "INT_LIT"
_is_uint_token(token) == token.type = "UINT_LIT"
_is_float_token(token) == token.type = "FLOAT_LIT"
_is_bool_token(token) == token.type = "BOOL_LIT"
_is_null_token(token) == token.type = "NULL_LIT"
_is_bytes_token(token) == token.type = "BYTES_LIT"

RECURSIVE _get_literal_token(_)
_get_literal_token(node) ==
    IF ~IsTree(node) THEN None
    ELSE IF node.data = "literal"
         THEN IF Len(node.children) > 0 /\ IsToken(node.children[1])
              THEN node.children[1] ELSE None
    ELSE IF Len(node.children) = 1 THEN _get_literal_token(node.children[1])
    ELSE None

\* _tree_contains_string_literal looking at the operand itself only, through
\* its single-child wrappers
_tree_contains_string_literal_operand(tree) ==
    /\ _get_literal_token(tree) # None
    /\ _is_string_token(_get_literal_token(tree))

RECURSIVE _tree_contains_string_literal(_)
_tree_contains_string_literal(tree) ==
    IF IsToken(tree) THEN _is_string_token(tree)
    ELSE IF tree.data = "literal" /\ Len(tree.children) > 0
         THEN IsToken(tree.children[1]) /\ _is_string_token(tree.children[1])
    ELSE \E i \in DOMAIN tree.children :
            /\ IsTree(tree.children[i])
            /\ _tree_contains_string_literal(tree.children[i])

RECURSIVE _unwrap_to_data(_, _)
_unwrap_to_data(node, target_data) ==
    IF ~IsTree(node) THEN None
    ELSE IF node.data = target_data THEN node
    ELSE IF Len(node.children) = 1
         THEN _unwrap_to_data(node.children[1], target_data)
    ELSE None

_tree_is_list_literal(tree) == _unwrap_to_data(tree, "list_lit") # None

\* The character a backslash escape stands for (Converter._process_escapes).
NUL == "<NUL>"
EscapeOf == [c \in {"n", "t", "r", "\\", "'", "\"", "0"} |->
                CASE c = "n" -> "\n"
                  [] c = "t" -> "\t"
                  [] c = "r" -> "\r"
                  [] c = "0" -> NUL
                  [] OTHER -> c]

RECURSIVE _process_escapes(_)
\* The \x and \u branches are not modelled: no input string of the model
\* holds such an escape.
_process_escapes(s) ==
    IF s = <<>> THEN <<>>
    ELSE IF s[1] = "\\" /\ Len(s) >= 2
         THEN IF s[2] \in DOMAIN EscapeOf
              THEN <<EscapeOf[s[2]]>> \o _process_escapes(SubSeq(s, 3, Len(s)))
              ELSE <<s[1], s[2]>> \o _process_escapes(SubSeq(s, 3, Len(s)))
    ELSE <<s[1]>> \o _process_escapes(Tail(s))

\* The string value of a string literal token, as every handler computes it:
\* unquote, then process escapes unless the literal is raw.
StringValue(token) ==
    IF IsRawString(token.text) THEN _strip_quotes(token.text)
    ELSE _process_escapes(_strip_quotes(token.text))

(***************************************************************************)
(* _utils.py                                                               *)
(***************************************************************************)
MAX_POSTGRESQL_IDENTIFIER_LENGTH == 63

LowerCase == "abcdefghijklmnopqrstuvwxyz"
UpperCase == "ABCDEFGHIJKLMNOPQRSTUVWXYZ"
Digits == "0123456789"

Chars(str) == [i \in 1..Len(str) |-> SubSeq(str, i, i)]
CharSet(str) == {SubSeq(str, i, i) : i \in 1..Len(str)}

\* FIELD_NAME_RE = ^[a-zA-Z_][a-zA-Z0-9_]*$
FIELD_NAME_RE_match(name) ==
    /\ Len(name) >= 1
    /\ SubSeq(name, 1, 1) \in CharSet(LowerCase) \cup CharSet(UpperCase) \cup {"_"}
    /\ \A i \in 2..Len(name) :
          SubSeq(name, i, i) \in
             CharSet(LowerCase) \cup CharSet(UpperCase) \cup CharSet(Digits) \cup {"_"}

LowerChar(c) ==
    IF \E i \in 1..26 : SubSeq(UpperCase, i, i) = c
    THEN LET i == CHOOSE j \in 1..26 : SubSeq(UpperCase, j, j) = c
         IN SubSeq(LowerCase, i, i)
    ELSE c

\* str.lower()
Lower(str) == Join([i \in 1..Len(str) |-> LowerChar(SubSeq(str, i, i))])

RESERVED_SQL_KEYWORDS ==
    {"all", "alter", "and", "any", "array", "as", "asc", "between",
     "by", "case", "cast", "check", "column", "constraint", "create",
     "cross", "current", "current_date", "current_time", "current_timestamp",
     "current_user", "default", "delete", "desc", "distinct", "drop",
     "else", "end", "except", "exists", "false", "for", "foreign",
     "from", "full", "grant", "group", "having", "in", "index", "inner",
     "insert", "intersect", "into", "is", "join", "left", "like", "limit",
     "not", "null", "offset", "on", "or", "order", "outer", "primary",
     "references", "right", "select", "session_user", "set", "some",
     "table", "then", "to", "true", "union", "unique", "update", "user",
     "using", "values", "when", "where", "with"}

\* validate_field_name: None when the name is accepted, else the error raised
validate_field_name(name) ==
    IF name = ""
    THEN ConversionError("InvalidFieldNameError",
            <<Txt("field name cannot be empty")>>,
            <<Txt("empty field name provided")>>)
    ELSE IF Len(name) > MAX_POSTGRESQL_IDENTIFIER_LENGTH
    THEN ConversionError("InvalidFieldNameError",
            <<Txt("field name too long")>>,
            <<Txt("field name '"), Val(name), Txt("' exceeds 63 characters")>>)
    ELSE IF ~FIELD_NAME_RE_match(name)
    THEN ConversionError("InvalidFieldNameError",
            <<Txt("invalid field name format")>>,
            <<Txt("field name '"), Val(name), Txt("' contains invalid characters")>>)
    ELSE IF Lower(name) \in RESERVED_SQL_KEYWORDS
    THEN ConversionError("InvalidFieldNameError",
            <<Txt("field name is a reserved SQL keyword")>>,
            <<Txt("field name '"), Val(name), Txt("' is a reserved SQL keyword")>>)
    ELSE None

\* the reserved words of each dialect (the PostgreSQL dialect uses
\* RESERVED_SQL_KEYWORDS)
DialectReserved(d) ==
    CASE d = "postgresql" -> RESERVED_SQL_KEYWORDS
      [] d = "bigquery" ->
           {"all", "alter", "and", "any", "array", "as", "asc",
            "assert_rows_modified", "at", "between", "by", "case", "cast",
            "collate", "contains", "create", "cross", "cube", "current",
            "default", "define", "desc", "distinct", "else", "end", "enum",
            "escape", "except", "exclude", "exists", "extract", "false",
            "fetch", "following", "for", "from", "full", "group",
            "grouping", "groups", "hash", "having", "if", "ignore", "in",
            "inner", "insert", "intersect", "interval", "into", "is",
            "join", "lateral", "left", "like", "limit", "lookup", "merge",
            "natural", "new", "no", "not", "null", "nulls", "of", "on",
            "or", "order", "outer", "over", "partition", "preceding",
            "proto", "range", "recursive", "respect", "right", "rollup",
            "rows", "select", "set", "some", "struct", "tablesample",
            "then", "to", "treat", "true", "unbounded", "union", "unnest",
            "using", "when", "where", "window", "with", "within"}
      [] d = "duckdb" ->
           {"all", "alter", "and", "any", "array", "as", "asc", "between",
            "by", "case", "cast", "check", "column", "constraint", "create",
            "cross", "current", "current_date", "current_time",
            "current_timestamp", "default", "delete", "desc", "distinct",
            "drop", "else", "end", "except", "exists", "false", "for",
            "foreign", "from", "full", "grant", "group", "having", "in",
            "index", "inner", "insert", "intersect", "into", "is", "isnull",
            "join", "lateral", "left", "like", "limit", "not", "notnull",
            "null", "offset", "on", "or", "order", "outer", "primary",
            "references", "right", "select", "set", "table", "then", "to",
            "true", "union", "unique", "update", "using", "values", "when",
            "where", "with"}
      [] d = "mysql" ->
           {"accessible", "add", "all", "alter", "analyze", "and", "as",
            "asc", "asensitive", "before", "between", "bigint", "binary",
            "blob", "both", "by", "call", "cascade", "case", "change",
            "char", "character", "check", "collate", "column", "condition",
            "constraint", "continue", "convert", "create", "cross", "cube",
            "cume_dist", "current_date", "current_time",
            "current_timestamp", "current_user", "cursor", "database",
            "databases", "day_hour", "day_microsecond", "day_minute",
            "day_second", "dec", "decimal", "declare", "default", "delayed",
            "delete", "dense_rank", "desc", "describe", "deterministic",
            "distinct", "distinctrow", "div", "double", "drop", "dual",
            "each", "else", "elseif", "empty", "enclosed", "escaped",
            "except", "exists", "exit", "explain", "false", "fetch",
            "float", "float4", "float8", "for", "force", "foreign", "from",
            "fulltext", "function", "generated", "get", "grant", "group",
            "grouping", "groups", "having", "high_priority",
            "hour_microsecond", "hour_minute", "hour_second", "if",
            "ignore", "in", "index", "infile", "inner", "inout",
            "insensitive", "insert", "int", "int1", "int2", "int3", "int4",
            "int8", "integer", "interval", "into", "io_after_gtids",
            "io_before_gtids", "is", "iterate", "join", "json_table", "key",
            "keys", "kill", "lag", "last_value", "lateral", "lead",
            "leading", "leave", "left", "like", "limit", "linear", "lines",
            "load", "localtime", "localtimestamp", "lock", "long",
            "longblob", "longtext", "loop", "low_priority", "master_bind",
            "master_ssl_verify_server_cert", "match", "maxvalue",
            "mediumblob", "mediumint", "mediumtext", "member", "merge",
            "middleint", "minute_microsecond", "minute_second", "mod",
            "modifies", "natural", "no_write_to_binlog", "not", "null",
            "numeric", "of", "on", "optimize", "optimizer_costs", "option",
            "optionally", "or", "order", "out", "outer", "outfile", "over",
            "partition", "percent_rank", "primary", "procedure", "purge",
            "range", "rank", "read", "read_write", "reads", "real",
            "recursive", "references", "regexp", "release", "rename",
            "repeat", "replace", "require", "resignal", "restrict",
            "return", "revoke", "right", "rlike", "row", "row_number",
            "rows", "schema", "schemas", "second_microsecond", "select",
            "sensitive", "separator", "set", "show", "signal", "smallint",
            "spatial", "specific", "sql", "sql_big_result",
            "sql_calc_found_rows", "sql_small_result", "sqlexception",
            "sqlstate", "sqlwarning", "ssl", "starting", "stored",
            "straight_join", "system", "table", "terminated", "then",
            "tinyblob", "tinyint", "tinytext", "to", "trailing", "trigger",
            "true", "undo", "union", "unique", "unlock", "unsigned",
            "update", "usage", "use", "using", "utc_date", "utc_time",
            "utc_timestamp", "values", "varbinary", "varchar",
            "varcharacter", "varying", "virtual", "when", "where", "while",
            "window", "with", "write", "xor", "year_month", "zerofill"}
      [] d = "sqlite" ->
           {"abort", "action", "add", "after", "all", "alter", "always",
            "analyze", "and", "as", "asc", "attach", "autoincrement",
            "before", "begin", "between", "by", "cascade", "case", "cast",
            "check", "collate", "column", "commit", "conflict",
            "constraint", "create", "cross", "current", "current_date",
            "current_time", "current_timestamp", "database", "default",
            "deferrable", "deferred", "delete", "desc", "detach",
            "distinct", "do", "drop", "each", "else", "end", "escape",
            "except", "exclude", "exclusive", "exists", "explain", "fail",
            "filter", "first", "following", "for", "foreign", "from",
            "full", "generated", "glob", "group", "groups", "having", "if",
            "ignore", "immediate", "in", "index", "indexed", "initially",
            "inner", "insert", "instead", "intersect", "into", "is",
            "isnull", "join", "key", "last", "left", "like", "limit",
            "match", "materialized", "natural", "no", "not", "nothing",
            "notnull", "null", "nulls", "of", "offset", "on", "or", "order",
            "others", "outer", "over", "partition", "plan", "pragma",
            "preceding", "primary", "query", "raise", "range", "recursive",
            "references", "regexp", "reindex", "release", "rename",
            "replace", "restrict", "returning", "right", "rollback", "row",
            "rows", "savepoint", "select", "set", "table", "temp",
            "temporary", "then", "ties", "to", "transaction", "trigger",
            "true", "unbounded", "union", "unique", "update", "using",
            "vacuum", "values", "view", "virtual", "when", "where",
            "window", "with", "without"}

\* Dialect.max_identifier_length: 0 stands for no limit
max_identifier_length(d) ==
    CASE d = "postgresql" -> MAX_POSTGRESQL_IDENTIFIER_LENGTH
      [] d = "bigquery" -> 300
      [] d = "mysql" -> 64
      [] d \in {"duckdb", "sqlite"} -> 0

\* Dialect.validate_field_name: None when the dialect accepts the name, else
\* the error its rule raises
dialect_validate_field_name(d, name) ==
    IF d = "postgresql" THEN validate_field_name(name)
    ELSE IF name = ""
    THEN ConversionError("InvalidFieldNameError",
            <<Txt("field name cannot be empty")>>,
            <<Txt("empty field name provided")>>)
    ELSE IF max_identifier_length(d) > 0 /\ Len(name) > max_identifier_length(d)
    THEN ConversionError("InvalidFieldNameError",
            <<Txt("field name too long")>>,
            <<Txt("field name '"), Val(name), Txt("' exceeds "),
              Val(ToString(max_identifier_length(d))), Txt(" characters")>>)
    ELSE IF ~FIELD_NAME_RE_match(name)
    THEN ConversionError("InvalidFieldNameError",
            <<Txt("invalid field name format")>>,
            <<Txt("field name '"), Val(name), Txt("' contains invalid characters")>>)
    ELSE IF Lower(name) \in DialectReserved(d)
    THEN ConversionError("InvalidFieldNameError",
            <<Txt("field name is a reserved SQL keyword")>>,
            <<Txt("field name '"), Val(name),
              Txt(CASE d = "bigquery" -> "' is a reserved BigQuery keyword"
                    [] d = "duckdb" -> "' is a reserved DuckDB keyword"
                    [] d = "mysql" -> "' is a reserved MySQL keyword"
                    [] d = "sqlite" -> "' is a reserved SQLite keyword")>>)
    ELSE None

RECURSIVE ReplaceChars(_, _)
\* str.replace(c, f[c]) for every character c in the domain of f, in one pass
ReplaceChars(s, f) ==
    IF s = <<>> THEN <<>>
    ELSE (IF s[1] \in DOMAIN f THEN f[s[1]] ELSE <<s[1]>>) \o ReplaceChars(Tail(s), f)

\* escape_like_pattern: \ then % then _ then ' are each replaced; no
\* replacement produces a character a later one rewrites, except the
\* backslashes, which are doubled first.
escape_like_pattern(pattern) ==
    ReplaceChars(pattern,
        ("\\" :> <<"\\", "\\">>) @@ ("%" :> <<"\\", "%">>) @@
        ("_" :> <<"\\", "_">>) @@ ("'" :> <<"'", "'">>))

\* validate_no_null_bytes: None, or the error raised
validate_no_null_bytes(value, context) ==
    IF \E i \in DOMAIN value : value[i] = NUL
    THEN ConversionError("InvalidFieldNameError",
            <<Txt(context), Txt(" cannot contain null bytes")>>,
            <<Txt("null byte found in "), Txt(context), Txt(": "), Val(Join(value))>>)
    ELSE None

MAX_REGEX_LENGTH == 500
MAX_REGEX_GROUPS == 20
MAX_REGEX_NESTING == 10

Quantifiers == {"+", "*", "?"}

\* sub occurs in s at position i
OccursAt(s, sub, i) == i + Len(sub) - 1 <= Len(s) /\ SubSeq(s, i, i + Len(sub) - 1) = sub

RECURSIVE ReplaceSub(_, _, _)
\* s.replace(old, new), on the characters
ReplaceSub(s, old, new) ==
    IF s = <<>> THEN <<>>
    ELSE IF OccursAt(s, old, 1)
    THEN new \o ReplaceSub(SubSeq(s, Len(old) + 1, Len(s)), old, new)
    ELSE <<s[1]>> \o ReplaceSub(Tail(s), old, new)

\* s.count(sub), for a sub that does not overlap itself
Count(s, sub) == Cardinality({i \in DOMAIN s : OccursAt(s, sub, i)})

\* the search with + as the only quantifier after the group
_REDOS_NESTED_QUANTIFIER_plus(s) ==
    \E i \in DOMAIN s, j \in DOMAIN s :
        /\ i + 2 <= j /\ j + 1 <= Len(s)
        /\ s[i] = "("
        /\ \A k \in (i + 1)..(j - 2) : s[k] # ")"
        /\ s[j - 1] \in Quantifiers
        /\ s[j] = ")"
        /\ s[j + 1] = "+"

\* _REDOS_NESTED_QUANTIFIER.search(s): \([^)]*[+*?]\)[+*?]
_REDOS_NESTED_QUANTIFIER(s) ==
    \E i \in DOMAIN s, j \in DOMAIN s :
        /\ i + 2 <= j /\ j + 1 <= Len(s)
        /\ s[i] = "("
        /\ \A k \in (i + 1)..(j - 2) : s[k] # ")"
        /\ s[j - 1] \in Quantifiers
        /\ s[j] = ")"
        /\ s[j + 1] \in Quantifiers

\* _REDOS_QUANTIFIED_ALTERNATION.search(s): \([^)]*\|[^)]*\)[+*?]
_REDOS_QUANTIFIED_ALTERNATION(s) ==
    \E i \in DOMAIN s, j \in DOMAIN s :
        /\ i + 2 <= j /\ j + 1 <= Len(s)
        /\ s[i] = "("
        /\ \A k \in (i + 1)..(j - 1) : s[k] # ")"
        /\ \E k \in (i + 1)..(j - 1) : s[k] = "|"
        /\ s[j] = ")"
        /\ s[j + 1] \in Quantifiers

\* the deepest nesting the loop over the characters counts
RegexMaxDepth(s) ==
    LET at == {Count(SubSeq(s, 1, k), <<"(">>) - Count(SubSeq(s, 1, k), <<")">>) :
                  k \in {i \in DOMAIN s : s[i] = "("}}
    IN IF at = {} THEN 0 ELSE CHOOSE d \in at \cup {0} : \A e \in at \cup {0} : e <= d

RegexError(user, internal, re2_pattern) ==
    ConversionError("InvalidRegexPatternError", <<Txt(user)>>,
                    <<Txt(internal), Val(Join(re2_pattern))>>)

\* the checks of convert_re2_to_posix on the pattern: None, or the error
\* raised; body is the pattern after its leading (?i)
RegexRejected(re2_pattern, body) ==
    IF Len(re2_pattern) > MAX_REGEX_LENGTH
    THEN ConversionError("InvalidRegexPatternError", <<Txt("regex pattern too long")>>,
            <<Txt("pattern length "), Val(ToString(Len(re2_pattern))),
              Txt(" exceeds limit 500")>>)
    ELSE IF validate_no_null_bytes(re2_pattern, "regex patterns") # None
    THEN validate_no_null_bytes(re2_pattern, "regex patterns")
    ELSE IF \E i \in DOMAIN body, ch \in {"!", "=", "<"} : OccursAt(body, <<"(", "?", ch>>, i)
    THEN RegexError("lookahead/lookbehind not supported",
                    "pattern contains lookahead/lookbehind: ", re2_pattern)
    ELSE IF \E i \in DOMAIN body : OccursAt(body, <<"(", "?", "P", "<">>, i)
    THEN RegexError("named captures not supported",
                    "pattern contains named captures: ", re2_pattern)
    ELSE IF \E i \in DOMAIN body, ch \in {"i", "m", "s", "x"} :
                OccursAt(body, <<"(", "?", ch>>, i)
    THEN RegexError("inline flags not supported",
                    "pattern contains inline flags: ", re2_pattern)
    ELSE IF _REDOS_NESTED_QUANTIFIER(body)
    THEN RegexError("potential ReDoS: nested quantifiers detected",
                    "pattern has nested quantifiers: ", re2_pattern)
    ELSE IF RegexMaxDepth(body) > MAX_REGEX_NESTING
    THEN ConversionError("InvalidRegexPatternError", <<Txt("regex nesting too deep")>>,
            <<Txt("pattern nesting depth "), Val(ToString(RegexMaxDepth(body))),
              Txt(" exceeds limit 10")>>)
    ELSE IF Count(body, <<"(">>) - Count(body, <<"(", "?", ":">>) > MAX_REGEX_GROUPS
    THEN ConversionError("InvalidRegexPatternError", <<Txt("too many regex groups")>>,
            <<Txt("pattern has "),
              Val(ToString(Count(body, <<"(">>) - Count(body, <<"(", "?", ":">>))),
              Txt(" groups, limit is 20")>>)
    ELSE None

\* the pattern after a leading (?i)
RegexBody(re2_pattern) ==
    IF OccursAt(re2_pattern, <<"(", "?", "i", ")">>, 1)
    THEN SubSeq(re2_pattern, 5, Len(re2_pattern)) ELSE re2_pattern

\* the shorthand classes and word boundaries of RE2 in POSIX, in the order
\* of the replace calls
PosixClasses ==
    <<<<"d", "[[:digit:]]">>, <<"D", "[^[:digit:]]">>, <<"w", "[[:alnum:]_]">>,
      <<"W", "[^[:alnum:]_]">>, <<"s", "[[:space:]]">>, <<"S", "[^[:space:]]">>,
      <<"b", "\\y">>, <<"B", "\\Y">>>>

RECURSIVE ReplaceClasses(_, _)
ReplaceClasses(pattern, k) ==
    IF k > Len(PosixClasses) THEN pattern
    ELSE ReplaceClasses(ReplaceSub(pattern, <<"\\", PosixClasses[k][1]>>,
                                   Chars(PosixClasses[k][2])), k + 1)

\* convert_re2_to_posix: [err] when it raises, else the pair it returns
convert_re2_to_posix(re2_pattern) ==
    LET body == RegexBody(re2_pattern)
        e == RegexRejected(re2_pattern, body)
    IN IF e # None THEN [err |-> e]
       ELSE [pattern |-> ReplaceSub(ReplaceClasses(body, 1), <<"(", "?", ":">>, <<"(">>),
             case_insensitive |-> body # re2_pattern]

\* convert_re2_to_re2_native (DuckDB, BigQuery): the engine reads RE2, the
\* pattern is checked and handed on without its leading (?i)
convert_re2_to_re2_native(re2_pattern) ==
    LET body == RegexBody(re2_pattern)
        e == RegexRejected(re2_pattern, body)
    IN IF e # None THEN [err |-> e]
       ELSE [pattern |-> body, case_insensitive |-> body # re2_pattern]

\* convert_re2_to_mysql: the pattern is checked and handed on
convert_re2_to_mysql(re2_pattern) ==
    LET body == RegexBody(re2_pattern)
        e == RegexRejected(re2_pattern, body)
    IN IF e # None THEN [err |-> e]
       ELSE [pattern |-> body, case_insensitive |-> body # re2_pattern]


(***************************************************************************)
(* _constants.py                                                           *)
(***************************************************************************)
DEFAULT_MAX_RECURSION_DEPTH == 100
MAX_COMPREHENSION_DEPTH == 3
MAX_BYTE_ARRAY_LENGTH == 10000
DEFAULT_MAX_SQL_OUTPUT_LENGTH == 50000

(***************************************************************************)
(* The steps of a handler.  A handler is the sequence of the steps its     *)
(* code performs; a dialect writer receives its callbacks as sequences of  *)
(* steps and returns the sequence it performs around them.                 *)
(***************************************************************************)
\* self._w.write(s)
W(s) == [op |-> "write", s |-> s, k |-> "sql"]
\* a write of the text of a literal
WL(s) == [op |-> "write", s |-> s, k |-> "lit"]
\* self._visit_child(t)
V(t) == [op |-> "visit", t |-> t]
\* idx = self._add_param(v); self._dialect.write_param_placeholder(self._w, idx)
P(v) == [op |-> "param", v |-> v]
\* raise e
R(e) == [op |-> "raise", e |-> e]
\* self._comprehension_vars.add(v), inside try/finally discard(v)
Bind(v) == [op |-> "bind", v |-> v]
\* self._comprehension_depth += 1, inside try/finally -= 1
IncComp == [op |-> "inc_comp"]

(***************************************************************************)
(* Dialects (dialect/*.py)                                                 *)
(***************************************************************************)
Dialects == {"postgresql", "duckdb", "bigquery", "mysql", "sqlite"}

\* write_string_literal: the text written
write_string_literal(d, value) ==
    IF d = "bigquery"
    THEN "'" \o Join(ReplaceChars(value,
                 ("\\" :> <<"\\", "\\">>) @@ ("'" :> <<"\\", "'">>))) \o "'"
    ELSE "'" \o Join(ReplaceChars(value, ("'" :> <<"'", "'">>))) \o "'"

\* bytes of the model are ASCII letters
HexOf == ("a" :> "61") @@ ("b" :> "62") @@ ("\\" :> "5c") @@ ("n" :> "6e")
OctOf == ("a" :> "141") @@ ("b" :> "142") @@ ("\\" :> "134") @@ ("n" :> "156")

\* write_bytes_literal: the text written
write_bytes_literal(d, value) ==
    CASE d \in {"postgresql", "duckdb"} ->
            "'\\x" \o Join([i \in DOMAIN value |-> HexOf[value[i]]]) \o "'"
      [] d \in {"mysql", "sqlite"} ->
            "X'" \o Join([i \in DOMAIN value |-> HexOf[value[i]]]) \o "'"
      [] d = "bigquery" ->
            "b\"" \o Join([i \in DOMAIN value |-> "\\" \o OctOf[value[i]]]) \o "\""

\* write_param_placeholder: the text written
write_param_placeholder(d, param_index) ==
    CASE d \in {"postgresql", "duckdb"} -> "$" \o ToString(param_index)
      [] d = "bigquery" -> "@p" \o ToString(param_index)
      [] d \in {"mysql", "sqlite"} -> "?"

write_string_concat(d, write_lhs, write_rhs) ==
    IF d = "mysql"
    THEN <<W("CONCAT(")>> \o write_lhs \o <<W(", ")>> \o write_rhs \o <<W(")")>>
    ELSE write_lhs \o <<W(" || ")>> \o write_rhs

write_like_escape(d) ==
    CASE d = "postgresql" -> <<W(" ESCAPE E'\\\\'")>>
      [] d = "duckdb" -> <<W(" ESCAPE '\\'")>>
      [] d = "bigquery" -> <<>>
      [] d = "mysql" -> <<W(" ESCAPE '\\\\'")>>
      [] d = "sqlite" -> <<W(" ESCAPE '\\'")>>

write_array_membership(d, write_elem, write_array) ==
    CASE d \in {"postgresql", "duckdb"} ->
            write_elem \o <<W(" = ANY(")>> \o write_array \o <<W(")")>>
      [] d = "bigquery" ->
            write_elem \o <<W(" IN UNNEST(")>> \o write_array \o <<W(")")>>
      [] d = "mysql" ->
            <<W("JSON_CONTAINS(")>> \o write_array
               \o <<W(", JSON_EXTRACT(JSON_ARRAY(")>> \o write_elem
               \o <<W("), '$[0]'))")>>
      [] d = "sqlite" ->
            write_elem \o <<W(" IN (SELECT value FROM json_each(")>>
               \o write_array \o <<W("))")>>

write_array_literal_open(d) ==
    CASE d = "postgresql" -> <<W("ARRAY[")>>
      [] d \in {"duckdb", "bigquery"} -> <<W("[")>>
      [] d = "mysql" -> <<W("JSON_ARRAY(")>>
      [] d = "sqlite" -> <<W("json_array(")>>

write_array_literal_close(d) ==
    IF d \in {"postgresql", "duckdb", "bigquery"} THEN <<W("]")>> ELSE <<W(")")>>

UnsupportedDialectFeature(user, internal) ==
    ConversionError("UnsupportedDialectFeatureError", <<Txt(user)>>, <<Txt(internal)>>)

\* convert_regex: PostgreSQL converts to POSIX, DuckDB and BigQuery keep RE2,
\* MySQL has its own conversion, SQLite raises
convert_regex(d, re2_pattern) ==
    CASE d = "postgresql" -> convert_re2_to_posix(re2_pattern)
      [] d \in {"duckdb", "bigquery"} -> convert_re2_to_re2_native(re2_pattern)
      [] d = "mysql" -> convert_re2_to_mysql(re2_pattern)
      [] d = "sqlite" ->
            [err |-> UnsupportedDialectFeature("regex not supported by SQLite dialect",
                        "SQLite does not have built-in regex support")]

write_regex_match(d, write_target, pattern, case_insensitive) ==
    LET quoted == Join(ReplaceChars(pattern, ("'" :> <<"'", "'">>)))
        slashed == Join(ReplaceChars(pattern,
                          ("\\" :> <<"\\", "\\">>) @@ ("'" :> <<"\\", "'">>)))
    IN
    CASE d = "postgresql" ->
            write_target \o <<W(IF case_insensitive THEN " ~* " ELSE " ~ "),
                              W("'" \o quoted \o "'")>>
      [] d = "duckdb" ->
            <<W("regexp_matches(")>> \o write_target
               \o <<W(IF case_insensitive THEN ", '" \o quoted \o "', 'i')"
                      ELSE ", '" \o quoted \o "')")>>
      [] d = "bigquery" ->
            <<W("REGEXP_CONTAINS(")>> \o write_target
               \o <<W(", "),
                    W(IF case_insensitive THEN "'(?i)" \o slashed \o "'"
                      ELSE "'" \o slashed \o "'"),
                    W(")")>>
      [] d = "mysql" ->
            write_target \o <<W(" REGEXP "), W("'" \o quoted \o "'")>>
      [] d = "sqlite" ->
            <<R(UnsupportedDialectFeature("regex not supported by SQLite dialect",
                    "SQLite does not have built-in regex support"))>>

write_split(d, write_str, write_delim) ==
    CASE d = "postgresql" ->
            <<W("STRING_TO_ARRAY(")>> \o write_str \o <<W(", ")>> \o write_delim \o <<W(")")>>
      [] d = "duckdb" ->
            <<W("STRING_SPLIT(")>> \o write_str \o <<W(", ")>> \o write_delim \o <<W(")")>>
      [] d = "bigquery" ->
            <<W("SPLIT(")>> \o write_str \o <<W(", ")>> \o write_delim \o <<W(")")>>
      [] d = "mysql" -> <<W("JSON_ARRAY(")>> \o write_str \o <<W(")")>>
      [] d = "sqlite" ->
            <<R(UnsupportedDialectFeature("split not supported by SQLite dialect",
                    "SQLite does not have a native string split function"))>>

write_split_with_limit(d, write_str, write_delim, limit) ==
    CASE d = "postgresql" ->
            <<W("(STRING_TO_ARRAY(")>> \o write_str \o <<W(", ")>> \o write_delim
               \o <<W("))[1:" \o ToString(limit) \o "]")>>
      [] d = "duckdb" ->
            <<W("STRING_SPLIT(")>> \o write_str \o <<W(", ")>> \o write_delim
               \o <<W(")[1:" \o ToString(limit) \o "]")>>
      [] d = "bigquery" ->
            <<W("ARRAY(SELECT x FROM UNNEST(SPLIT(")>> \o write_str \o <<W(", ")>>
               \o write_delim
               \o <<W(")) AS x WITH OFFSET WHERE OFFSET < " \o ToString(limit) \o ")")>>
      [] d = "mysql" -> <<W("JSON_ARRAY(")>> \o write_str \o <<W(")")>>
      [] d = "sqlite" ->
            <<R(UnsupportedDialectFeature("split not supported by SQLite dialect",
                    "SQLite does not have a native string split function"))>>

\* write_join with SQLite joining through group_concat
write_join_sqlite(d, write_array, write_delim) ==
    CASE d = "postgresql" ->
            <<W("ARRAY_TO_STRING(")>> \o write_array \o <<W(", ")>> \o write_delim
               \o <<W(", '')")>>
      [] d \in {"duckdb", "bigquery"} ->
            <<W("ARRAY_TO_STRING(")>> \o write_array \o <<W(", ")>> \o write_delim
               \o <<W(")")>>
      [] d = "mysql" -> <<W("JSON_UNQUOTE(")>> \o write_array \o <<W(")")>>
      [] d = "sqlite" ->
            <<W("group_concat(")>> \o write_array \o <<W(", ")>> \o write_delim \o <<W(")")>>

write_join(d, write_array, write_delim) ==
    CASE d = "postgresql" ->
            <<W("ARRAY_TO_STRING(")>> \o write_array \o <<W(", ")>> \o write_delim
               \o <<W(", '')")>>
      [] d \in {"duckdb", "bigquery"} ->
            <<W("ARRAY_TO_STRING(")>> \o write_array \o <<W(", ")>> \o write_delim
               \o <<W(")")>>
      [] d = "mysql" -> <<W("JSON_UNQUOTE(")>> \o write_array \o <<W(")")>>
      [] d = "sqlite" ->
            <<R(UnsupportedDialectFeature("join not supported by SQLite dialect",
                    "SQLite does not have a native array join function"))>>

\* write_empty_typed_array, for the type name "text"
write_empty_typed_array(d, type_name) ==
    CASE d = "postgresql" -> <<W("ARRAY[]::" \o type_name \o "[]")>>
      [] d = "duckdb" -> <<W("[]::" \o type_name \o "[]")>>
      [] d = "bigquery" -> <<W("ARRAY<STRING>[]")>>
      [] d = "mysql" -> <<W("JSON_ARRAY()")>>
      [] d = "sqlite" -> <<W("json_array()")>>

write_timestamp_cast(d, write_expr) ==
    CASE d = "postgresql" -> <<W("CAST(")>> \o write_expr \o <<W(" AS TIMESTAMP WITH TIME ZONE)")>>
      [] d = "duckdb" -> <<W("CAST(")>> \o write_expr \o <<W(" AS TIMESTAMPTZ)")>>
      [] d = "bigquery" -> <<W("CAST(")>> \o write_expr \o <<W(" AS TIMESTAMP)")>>
      [] d = "mysql" -> <<W("CAST(")>> \o write_expr \o <<W(" AS DATETIME)")>>
      [] d = "sqlite" -> <<W("datetime(")>> \o write_expr \o <<W(")")>>

write_interval(d, write_value, unit) ==
    IF d = "sqlite"
    THEN LET lower == Lower(unit)
             unit_lower == IF Len(lower) > 0 /\ SubSeq(lower, Len(lower), Len(lower)) = "s"
                           THEN SubSeq(lower, 1, Len(lower) - 1) ELSE lower
         IN <<W("'+' || ")>> \o write_value \o <<W(" || ' " \o unit_lower \o "s'")>>
    ELSE <<W("INTERVAL ")>> \o write_value \o <<W(" " \o unit)>>

write_timestamp_arithmetic(d, op, write_ts, write_dur) ==
    CASE d \in {"postgresql", "duckdb", "mysql"} ->
            write_ts \o <<W(" " \o op \o " ")>> \o write_dur
      [] d = "bigquery" ->
            <<W(IF op = "+" THEN "TIMESTAMP_ADD(" ELSE "TIMESTAMP_SUB(")>>
               \o write_ts \o <<W(", ")>> \o write_dur \o <<W(")")>>
      [] d = "sqlite" ->
            <<W("datetime(")>> \o write_ts \o <<W(", ")>>
               \o (IF op = "-"
                   THEN <<W("REPLACE(")>> \o write_dur \o <<W(", '+', '-')")>>
                   ELSE write_dur)
               \o <<W(")")>>

write_contains(d, write_haystack, write_needle) ==
    CASE d = "postgresql" ->
            <<W("POSITION(")>> \o write_needle \o <<W(" IN ")>>
               \o write_haystack \o <<W(") > 0")>>
      [] d = "duckdb" ->
            <<W("CONTAINS(")>> \o write_haystack \o <<W(", ")>>
               \o write_needle \o <<W(")")>>
      [] d = "bigquery" ->
            <<W("STRPOS(")>> \o write_haystack \o <<W(", ")>>
               \o write_needle \o <<W(") > 0")>>
      [] d = "mysql" ->
            <<W("LOCATE(")>> \o write_needle \o <<W(", ")>>
               \o write_haystack \o <<W(") > 0")>>
      [] d = "sqlite" ->
            <<W("INSTR(")>> \o write_haystack \o <<W(", ")>>
               \o write_needle \o <<W(") > 0")>>

write_unnest(d, write_source) ==
    CASE d \in {"postgresql", "duckdb", "bigquery"} ->
            <<W("UNNEST(")>> \o write_source \o <<W(")")>>
      [] d = "mysql" ->
            <<W("JSON_TABLE(")>> \o write_source
               \o <<W(", '$[*]' COLUMNS(value TEXT PATH '$'))")>>
      [] d = "sqlite" ->
            <<W("json_each(")>> \o write_source \o <<W(")")>>

write_array_subquery_open(d) ==
    CASE d \in {"postgresql", "duckdb", "bigquery"} -> <<W("ARRAY(SELECT ")>>
      [] d = "mysql" -> <<W("(SELECT JSON_ARRAYAGG(")>>
      [] d = "sqlite" -> <<W("(SELECT json_group_array(")>>

\* PostgresDialect's method is not among the sources; it is taken to write
\* nothing, which gives the ARRAY(SELECT ... FROM UNNEST(...)) shape.
postgres_write_array_subquery_expr_close == <<>>

write_array_subquery_expr_close(d) ==
    CASE d = "postgresql" -> postgres_write_array_subquery_expr_close
      [] d \in {"duckdb", "bigquery"} -> <<>>
      [] d \in {"mysql", "sqlite"} -> <<W(")")>>


(***************************************************************************)
(* Converter: tree predicates that read the schemas or the names           *)
(***************************************************************************)
\* A Converter is a record c: dialect, schemas, max_depth, max_output_length,
\* depth, comprehension_depth, parameterize, parameters, param_count,
\* comprehension_vars, validate_schema and the buffer w.
\* schemas maps a table name to a map from field name to FieldSchema.
\* A name that Python holds as None is the empty string here; every use
\* tests its truth only.

\* the name is imported by _converter.py; its text is the one the tests of
\* schema validation read from str(error)
ERR_MSG_SCHEMA_VALIDATION_FAILED == <<Txt("field not found in schema")>>

\* _validate_field_in_schema: None, or the error raised
_validate_field_in_schema(c, table_name, field_name) ==
    IF ~c.validate_schema THEN None
    ELSE IF table_name \notin DOMAIN c.schemas
    THEN ConversionError("InvalidSchemaError", ERR_MSG_SCHEMA_VALIDATION_FAILED,
            <<Txt("table '"), Val(table_name), Txt("' not found in schemas")>>)
    ELSE IF field_name \notin DOMAIN c.schemas[table_name]
    THEN ConversionError("InvalidSchemaError", ERR_MSG_SCHEMA_VALIDATION_FAILED,
            <<Txt("field '"), Val(field_name), Txt("' not found in schema for '"),
              Val(table_name), Txt("'")>>)
    ELSE None

RECURSIVE _get_root_ident(_)
_get_root_ident(node) ==
    IF IsTree(node)
    THEN IF node.data = "ident" THEN node.children[1].text
         ELSE IF Len(node.children) >= 1 THEN _get_root_ident(node.children[1])
         ELSE ""
    ELSE IF node.type = "IDENT" THEN node.text ELSE ""

RECURSIVE SkipMemberPrimary(_)
SkipMemberPrimary(node) ==
    IF IsTree(node) /\ node.data \in {"member", "primary"} /\ Len(node.children) = 1
    THEN SkipMemberPrimary(node.children[1])
    ELSE node

RECURSIVE _get_first_field(_, _)
_get_first_field(node, fallback) ==
    IF ~IsTree(node) THEN fallback
    ELSE IF node.data = "member_dot"
         THEN LET inner_child == SkipMemberPrimary(node.children[1]) IN
              IF IsTree(inner_child) /\ inner_child.data = "ident"
              THEN node.children[2].text
              ELSE _get_first_field(node.children[1], fallback)
    ELSE IF Len(node.children) = 1 THEN _get_first_field(node.children[1], fallback)
    ELSE fallback

_is_field_json(c, table_name, field_name) ==
    /\ table_name \in DOMAIN c.schemas
    /\ field_name \in DOMAIN c.schemas[table_name]
    /\ \/ c.schemas[table_name][field_name].is_json
       \/ c.schemas[table_name][field_name].is_jsonb

_is_nested_json_field(c, tree) ==
    /\ tree.data = "member_dot"
    /\ _get_root_ident(tree.children[1]) # ""
    /\ _is_field_json(c, _get_root_ident(tree.children[1]),
                      _get_first_field(tree.children[1], tree.children[2].text))

RECURSIVE SkipChain(_)
SkipChain(node) ==
    IF /\ IsTree(node)
       /\ \E i \in DOMAIN Chain : Chain[i] = node.data
       /\ Len(node.children) = 1
    THEN SkipChain(node.children[1])
    ELSE node

_is_json_text_extraction(c, tree) ==
    LET node == SkipChain(tree) IN
    /\ IsTree(node)
    /\ node.data = "member_dot"
    /\ _is_nested_json_field(c, node)

_is_numeric_literal(tree) ==
    LET tok == _get_literal_token(tree) IN
    /\ tok # None
    /\ (_is_int_token(tok) \/ _is_float_token(tok) \/ _is_uint_token(tok))

RECURSIVE _is_duration_expression(_)
_is_duration_expression(tree) ==
    IF IsToken(tree) THEN FALSE
    ELSE IF tree.data = "ident_arg"
         THEN tree.children[1].text \in {"duration", "interval"}
    ELSE \E i \in DOMAIN tree.children :
            /\ ~(IsTree(tree.children[i]) /\ tree.children[i].data = "exprlist")
            /\ _is_duration_expression(tree.children[i])

RECURSIVE _tree_has_temporal(_)
_tree_has_temporal(tree) ==
    IF IsToken(tree) THEN FALSE
    ELSE IF tree.data = "ident_arg"
         THEN tree.children[1].text \in
                {"duration", "interval", "timestamp", "date", "time",
                 "datetime", "current_date", "current_datetime"}
    ELSE IF tree.data = "ident"
         THEN tree.children[1].text \in
                {"created_at", "updated_at", "birthday", "fixed_time",
                 "scheduled_at"}
    ELSE \E i \in DOMAIN tree.children : _tree_has_temporal(tree.children[i])

_is_timestamp_or_duration_context(lhs, rhs) ==
    _tree_has_temporal(lhs) \/ _tree_has_temporal(rhs)

_is_comprehension_var(c, name) == name \in c.comprehension_vars

RECURSIVE _get_ident_name(_)
\* the name, or "" where the code raises InvalidArgumentsError
_get_ident_name(node) ==
    IF IsTree(node)
    THEN IF node.data = "ident" THEN node.children[1].text
         ELSE IF Len(node.children) = 1 THEN _get_ident_name(node.children[1])
         ELSE ""
    ELSE IF node.type = "IDENT" THEN node.text ELSE ""

RECURSIVE EndsAtToken(_)
EndsAtToken(node) ==
    IF ~IsTree(node) THEN TRUE
    ELSE IF node.data # "ident" /\ Len(node.children) = 1
         THEN EndsAtToken(node.children[1])
    ELSE FALSE

\* the error _get_ident_name raises for tree
_get_ident_name_error(tree) ==
    IF EndsAtToken(tree)
    THEN ConversionError("InvalidArgumentsError", <<Txt("expected identifier")>>,
            <<Txt("cannot extract identifier from node")>>)
    ELSE ConversionError("InvalidArgumentsError", <<Txt("expected identifier")>>,
            <<Txt("cannot extract identifier from "), Val(tree.data)>>)

COMPARISON_OPERATORS ==
    ("relation_eq" :> "=") @@ ("relation_ne" :> "!=") @@ ("relation_lt" :> "<") @@
    ("relation_le" :> "<=") @@ ("relation_gt" :> ">") @@ ("relation_ge" :> ">=")

NULL_AWARE_OPS == {"relation_eq", "relation_ne"}

\* int(s) of a decimal literal, int(s, 0) of a decimal or 0x literal
DigitVal(ch) == (CHOOSE i \in 1..16 : SubSeq("0123456789abcdef", i, i) = ch) - 1

RECURSIVE ParseDigits(_, _, _)
ParseDigits(str, base, acc) ==
    IF str = "" THEN acc
    ELSE ParseDigits(SubSeq(str, 2, Len(str)), base,
                     acc * base + DigitVal(SubSeq(str, 1, 1)))

RECURSIVE ParseInt(_)
ParseInt(str) ==
    IF Len(str) > 1 /\ SubSeq(str, 1, 1) = "-"
    THEN 0 - ParseInt(SubSeq(str, 2, Len(str)))
    ELSE IF Len(str) > 2 /\ SubSeq(str, 1, 2) = "0x"
    THEN ParseDigits(SubSeq(str, 3, Len(str)), 16, 0)
    ELSE ParseDigits(str, 10, 0)

RECURSIVE FloatValue(_)
\* float(text), as the shortest decimal text of the value: zeros that end
\* the fraction are dropped (the literals explored have no exponent)
FloatValue(str) ==
    IF /\ Len(str) > 2
       /\ SubSeq(str, Len(str), Len(str)) = "0"
       /\ SubSeq(str, Len(str) - 1, Len(str) - 1) # "."
    THEN FloatValue(SubSeq(str, 1, Len(str) - 1))
    ELSE str

\* str.rstrip("uU")
RECURSIVE RStripU(_)
RStripU(str) ==
    IF str # "" /\ SubSeq(str, Len(str), Len(str)) \in {"u", "U"}
    THEN RStripU(SubSeq(str, 1, Len(str) - 1))
    ELSE str

\* Python integers are unbounded: an index is kept as its decimal text.
\* the text is what int(s) accepts: an optional sign and decimal digits
IsDecimalText(str) ==
    LET digits == IF str # "" /\ SubSeq(str, 1, 1) \in {"-", "+"}
                  THEN SubSeq(str, 2, Len(str)) ELSE str
    IN /\ digits # ""
       /\ \A i \in 1..Len(digits) : SubSeq(digits, i, i) \in CharSet(Digits)

RECURSIVE DecNorm(_)
\* the digits without the zeros that lead them
DecNorm(digits) ==
    IF Len(digits) > 1 /\ SubSeq(digits, 1, 1) = "0"
    THEN DecNorm(SubSeq(digits, 2, Len(digits)))
    ELSE digits

\* abs(int(s)) as decimal text
DecMagnitude(str) ==
    DecNorm(IF SubSeq(str, 1, 1) \in {"-", "+"} THEN SubSeq(str, 2, Len(str)) ELSE str)

\* int(s) < 0
DecNegative(str) == SubSeq(str, 1, 1) = "-" /\ DecMagnitude(str) # "0"

\* a > b, for the texts of two naturals
DecGreater(a, b) ==
    \/ Len(a) > Len(b)
    \/ /\ Len(a) = Len(b)
       /\ \E i \in 1..Len(a) :
             /\ SubSeq(a, 1, i - 1) = SubSeq(b, 1, i - 1)
             /\ DigitVal(SubSeq(a, i, i)) > DigitVal(SubSeq(b, i, i))

RECURSIVE DecSucc(_)
\* a + 1, for the text of a natural
DecSucc(a) ==
    IF a = "" THEN "1"
    ELSE LET last == SubSeq(a, Len(a), Len(a))
             init == SubSeq(a, 1, Len(a) - 1)
         IN IF last = "9" THEN DecSucc(init) \o "0"
            ELSE init \o ToString(DigitVal(last) + 1)

\* 2**31
TWO_POW_31 == "2147483648"

\* write_list_index: the steps around the callbacks
write_list_index(d, write_array, write_index) ==
    CASE d \in {"postgresql", "duckdb"} ->
            write_array \o <<W("[")>> \o write_index \o <<W(" + 1]")>>
      [] d = "bigquery" ->
            write_array \o <<W("[OFFSET(")>> \o write_index \o <<W(")]")>>
      [] d = "mysql" ->
            <<W("JSON_EXTRACT(")>> \o write_array \o <<W(", CONCAT('$[', ")>>
               \o write_index \o <<W(", ']'))")>>
      [] d = "sqlite" ->
            <<W("json_extract(")>> \o write_array \o <<W(", '$[' || ")>>
               \o write_index \o <<W(" || ']')")>>

\* write_list_index_const: the steps around the callback; index is the
\* decimal text of the integer
write_list_index_const(d, write_array, index) ==
    CASE d \in {"postgresql", "duckdb"} ->
            write_array \o <<W("[" \o DecSucc(index) \o "]")>>
      [] d = "bigquery" ->
            write_array \o <<W("[OFFSET(" \o index \o ")]")>>
      [] d = "mysql" ->
            <<W("JSON_EXTRACT(")>> \o write_array
               \o <<W(", '$[" \o index \o "]')")>>
      [] d = "sqlite" ->
            <<W("json_extract(")>> \o write_array
               \o <<W(", '$[" \o index \o "]')")>>

\* write_json_field_access: the steps around the callback
write_json_field_access(d, write_base, field_name, is_final) ==
    LET quoted == Join(ReplaceChars(Chars(field_name), ("'" :> <<"'", "'">>)))
        slashed == Join(ReplaceChars(Chars(field_name),
                          ("\\" :> <<"\\", "\\">>) @@ ("'" :> <<"\\", "'">>)))
    IN
    CASE d \in {"postgresql", "duckdb"} ->
            write_base \o <<W((IF is_final THEN "->>'" ELSE "->'") \o quoted \o "'")>>
      [] d = "bigquery" ->
            <<W(IF is_final THEN "JSON_VALUE(" ELSE "JSON_QUERY(")>> \o write_base
               \o <<W(", '$." \o slashed \o "')")>>
      [] d = "mysql" ->
            write_base \o <<W((IF is_final THEN "->>'$." ELSE "->'$.") \o quoted \o "'")>>
      [] d = "sqlite" ->
            <<W("json_extract(")>> \o write_base \o <<W(", '$." \o quoted \o "')")>>


(***************************************************************************)
(* Converter: the node handlers.  Each gives the steps the handler takes   *)
(* for a node, as decided by the tree and by the Converter c on entry.     *)
(***************************************************************************)
Unsupported(user, internal) ==
    <<R(ConversionError("UnsupportedExpressionError", user, internal))>>

InvalidArguments(user) ==
    <<R(ConversionError("InvalidArgumentsError", <<Txt(user)>>, <<>>))>>

expr(c, tree) ==
    LET children == tree.children IN
    IF Len(children) = 3
    THEN <<W("CASE WHEN "), V(children[1]), W(" THEN "), V(children[2]),
           W(" ELSE "), V(children[3]), W(" END")>>
    ELSE IF Len(children) = 1 THEN <<V(children[1])>>
    ELSE Unsupported(<<Txt("unsupported expression structure")>>,
            <<Txt("expr node has "), Val(ToString(Len(children))), Txt(" children")>>)

conditionalor(c, tree) ==
    LET children == tree.children IN
    IF Len(children) = 2
    THEN <<V(children[1]), W(" OR "), V(children[2])>>
    ELSE IF Len(children) = 1 THEN <<V(children[1])>>
    ELSE Unsupported(<<Txt("unsupported OR expression")>>,
            <<Txt("conditionalor has "), Val(ToString(Len(children))), Txt(" children")>>)

conditionaland(c, tree) ==
    LET children == tree.children IN
    IF Len(children) = 2
    THEN <<V(children[1]), W(" AND "), V(children[2])>>
    ELSE IF Len(children) = 1 THEN <<V(children[1])>>
    ELSE Unsupported(<<Txt("unsupported AND expression")>>,
            <<Txt("conditionaland has "), Val(ToString(Len(children))), Txt(" children")>>)

\* PostgresDialect.write_cast_to_numeric takes the writer only; the Converter
\* passes it a callback as well, which Python rejects with a TypeError.
write_cast_to_numeric(d, write_expr) ==
    CASE d = "postgresql" -> <<R([type |-> "TypeError"])>>
      [] d = "duckdb" -> write_expr \o <<W("::DOUBLE")>>
      [] d = "bigquery" -> <<W("CAST(")>> \o write_expr \o <<W(" AS FLOAT64)")>>
      [] d \in {"mysql", "sqlite"} -> write_expr \o <<W(" + 0")>>

_visit_in(c, lhs, rhs) ==
    write_array_membership(c.dialect, <<V(lhs)>>, <<V(rhs)>>)

IsWord(op_name, bool_val) ==
    IF op_name = "relation_eq"
    THEN (IF bool_val THEN " IS TRUE" ELSE " IS FALSE")
    ELSE (IF bool_val THEN " IS NOT TRUE" ELSE " IS NOT FALSE")

\* relation with the null and boolean literals looked for on the right only
relation_rhs_only(c, tree) ==
    LET children == tree.children IN
    IF Len(children) = 1 THEN <<V(children[1])>>
    ELSE IF Len(children) # 2
    THEN Unsupported(<<Txt("unsupported relation expression")>>,
            <<Txt("relation has "), Val(ToString(Len(children))), Txt(" children")>>)
    ELSE IF ~IsTree(children[1])
    THEN Unsupported(<<Txt("unsupported relation operator")>>,
            <<Txt("expected Tree, got "), Val("Token")>>)
    ELSE
    LET op_node == children[1]
        rhs == children[2]
        op_name == op_node.data
        lhs == op_node.children[1]
        rhs_literal == _get_literal_token(rhs)
        lhs_literal == _get_literal_token(lhs)
        null_word == IF op_name = "relation_eq" THEN " IS NULL" ELSE " IS NOT NULL"
    IN
    IF op_name = "relation_in" THEN _visit_in(c, lhs, rhs)
    ELSE IF op_name \in NULL_AWARE_OPS /\ rhs_literal # None /\ _is_null_token(rhs_literal)
    THEN <<V(lhs), W(null_word)>>
    ELSE IF op_name \in NULL_AWARE_OPS /\ rhs_literal # None /\ _is_bool_token(rhs_literal)
    THEN <<V(lhs), W(IsWord(op_name, Lower(rhs_literal.text) = "true"))>>
    ELSE IF op_name \notin DOMAIN COMPARISON_OPERATORS
    THEN Unsupported(<<Txt("unsupported comparison operator")>>,
            <<Txt("unknown relation operator: "), Val(op_name)>>)
    ELSE
    LET sql_op == COMPARISON_OPERATORS[op_name] IN
    IF _is_json_text_extraction(c, lhs) /\ _is_numeric_literal(rhs)
    THEN write_cast_to_numeric(c.dialect, <<W("("), V(lhs), W(")")>>)
            \o <<W(" " \o sql_op \o " "), V(rhs)>>
    ELSE IF _is_json_text_extraction(c, rhs) /\ _is_numeric_literal(lhs)
    THEN <<V(lhs), W(" " \o sql_op \o " ")>>
            \o write_cast_to_numeric(c.dialect, <<W("("), V(rhs), W(")")>>)
    ELSE <<V(lhs), W(" " \o sql_op \o " "), V(rhs)>>

relation(c, tree) ==
    LET children == tree.children IN
    IF Len(children) = 1 THEN <<V(children[1])>>
    ELSE IF Len(children) # 2
    THEN Unsupported(<<Txt("unsupported relation expression")>>,
            <<Txt("relation has "), Val(ToString(Len(children))), Txt(" children")>>)
    ELSE IF ~IsTree(children[1])
    THEN Unsupported(<<Txt("unsupported relation operator")>>,
            <<Txt("expected Tree, got "), Val("Token")>>)
    ELSE
    LET op_node == children[1]
        rhs == children[2]
        op_name == op_node.data
        lhs == op_node.children[1]
        rhs_literal == _get_literal_token(rhs)
        lhs_literal == _get_literal_token(lhs)
        null_word == IF op_name = "relation_eq" THEN " IS NULL" ELSE " IS NOT NULL"
    IN
    IF op_name = "relation_in" THEN _visit_in(c, lhs, rhs)
    ELSE IF op_name \in NULL_AWARE_OPS /\ rhs_literal # None /\ _is_null_token(rhs_literal)
    THEN <<V(lhs), W(null_word)>>
    ELSE IF op_name \in NULL_AWARE_OPS /\ lhs_literal # None /\ _is_null_token(lhs_literal)
    THEN <<V(rhs), W(null_word)>>
    ELSE IF op_name \in NULL_AWARE_OPS /\ rhs_literal # None /\ _is_bool_token(rhs_literal)
    THEN <<V(lhs), W(IsWord(op_name, Lower(rhs_literal.text) = "true"))>>
    ELSE IF op_name \in NULL_AWARE_OPS /\ lhs_literal # None /\ _is_bool_token(lhs_literal)
    THEN <<V(rhs), W(IsWord(op_name, Lower(lhs_literal.text) = "true"))>>
    ELSE IF op_name \notin DOMAIN COMPARISON_OPERATORS
    THEN Unsupported(<<Txt("unsupported comparison operator")>>,
            <<Txt("unknown relation operator: "), Val(op_name)>>)
    ELSE
    LET sql_op == COMPARISON_OPERATORS[op_name] IN
    IF _is_json_text_extraction(c, lhs) /\ _is_numeric_literal(rhs)
    THEN write_cast_to_numeric(c.dialect, <<W("("), V(lhs), W(")")>>)
            \o <<W(" " \o sql_op \o " "), V(rhs)>>
    ELSE IF _is_json_text_extraction(c, rhs) /\ _is_numeric_literal(lhs)
    THEN <<V(lhs), W(" " \o sql_op \o " ")>>
            \o write_cast_to_numeric(c.dialect, <<W("("), V(rhs), W(")")>>)
    ELSE <<V(lhs), W(" " \o sql_op \o " "), V(rhs)>>

\* relation_eq .. relation_in, addition_add, addition_sub, multiplication_*
operator_prefix(c, tree) == <<V(tree.children[1])>>

\* addition with the operands of + never swapped
addition_in_order(c, tree) ==
    LET children == tree.children IN
    IF Len(children) = 1 THEN <<V(children[1])>>
    ELSE IF Len(children) # 2
    THEN Unsupported(<<Txt("unsupported addition expression")>>,
            <<Txt("addition has "), Val(ToString(Len(children))), Txt(" children")>>)
    ELSE IF ~IsTree(children[1])
    THEN Unsupported(<<Txt("unsupported addition operator")>>, <<>>)
    ELSE
    LET op_node == children[1]
        rhs == children[2]
        lhs == op_node.children[1]
        op_name == op_node.data
    IN
    IF op_name = "addition_add"
    THEN IF _is_timestamp_or_duration_context(lhs, rhs)
         THEN IF _is_duration_expression(lhs) /\ ~_is_duration_expression(rhs)
              THEN write_timestamp_arithmetic(c.dialect, "+", <<V(lhs)>>, <<V(rhs)>>)
              ELSE write_timestamp_arithmetic(c.dialect, "+", <<V(lhs)>>, <<V(rhs)>>)
         ELSE IF _tree_contains_string_literal(lhs) \/ _tree_contains_string_literal(rhs)
         THEN write_string_concat(c.dialect, <<V(lhs)>>, <<V(rhs)>>)
         ELSE IF _tree_is_list_literal(lhs) \/ _tree_is_list_literal(rhs)
         THEN write_string_concat(c.dialect, <<V(lhs)>>, <<V(rhs)>>)
         ELSE <<V(lhs), W(" + "), V(rhs)>>
    ELSE IF op_name = "addition_sub"
    THEN IF _is_timestamp_or_duration_context(lhs, rhs)
         THEN write_timestamp_arithmetic(c.dialect, "-", <<V(lhs)>>, <<V(rhs)>>)
         ELSE <<V(lhs), W(" - "), V(rhs)>>
    ELSE Unsupported(<<Txt("unsupported addition operator")>>,
            <<Txt("unknown addition operator: "), Val(op_name)>>)

addition(c, tree) ==
    LET children == tree.children IN
    IF Len(children) = 1 THEN <<V(children[1])>>
    ELSE IF Len(children) # 2
    THEN Unsupported(<<Txt("unsupported addition expression")>>,
            <<Txt("addition has "), Val(ToString(Len(children))), Txt(" children")>>)
    ELSE IF ~IsTree(children[1])
    THEN Unsupported(<<Txt("unsupported addition operator")>>, <<>>)
    ELSE
    LET op_node == children[1]
        rhs == children[2]
        lhs == op_node.children[1]
        op_name == op_node.data
    IN
    IF op_name = "addition_add"
    THEN IF _is_timestamp_or_duration_context(lhs, rhs)
         THEN IF _is_duration_expression(lhs) /\ ~_is_duration_expression(rhs)
              THEN write_timestamp_arithmetic(c.dialect, "+", <<V(rhs)>>, <<V(lhs)>>)
              ELSE write_timestamp_arithmetic(c.dialect, "+", <<V(lhs)>>, <<V(rhs)>>)
         ELSE IF _tree_contains_string_literal(lhs) \/ _tree_contains_string_literal(rhs)
         THEN write_string_concat(c.dialect, <<V(lhs)>>, <<V(rhs)>>)
         ELSE IF _tree_is_list_literal(lhs) \/ _tree_is_list_literal(rhs)
         THEN write_string_concat(c.dialect, <<V(lhs)>>, <<V(rhs)>>)
         ELSE <<V(lhs), W(" + "), V(rhs)>>
    ELSE IF op_name = "addition_sub"
    THEN IF _is_timestamp_or_duration_context(lhs, rhs)
         THEN write_timestamp_arithmetic(c.dialect, "-", <<V(lhs)>>, <<V(rhs)>>)
         ELSE <<V(lhs), W(" - "), V(rhs)>>
    ELSE Unsupported(<<Txt("unsupported addition operator")>>,
            <<Txt("unknown addition operator: "), Val(op_name)>>)

multiplication(c, tree) ==
    LET children == tree.children IN
    IF Len(children) = 1 THEN <<V(children[1])>>
    ELSE IF Len(children) # 2
    THEN Unsupported(<<Txt("unsupported multiplication expression")>>,
            <<Txt("multiplication has "), Val(ToString(Len(children))), Txt(" children")>>)
    ELSE IF ~IsTree(children[1])
    THEN Unsupported(<<Txt("unsupported multiplication operator")>>, <<>>)
    ELSE
    LET op_node == children[1]
        rhs == children[2]
        lhs == op_node.children[1]
        op_name == op_node.data
    IN
    CASE op_name = "multiplication_mul" -> <<V(lhs), W(" * "), V(rhs)>>
      [] op_name = "multiplication_div" -> <<V(lhs), W(" / "), V(rhs)>>
      [] op_name = "multiplication_mod" ->
            <<W("MOD("), V(lhs), W(", "), V(rhs), W(")")>>
      [] OTHER -> Unsupported(<<Txt("unsupported multiplication operator")>>,
                     <<Txt("unknown multiplication operator: "), Val(op_name)>>)

unary(c, tree) ==
    LET children == tree.children IN
    IF Len(children) = 1 THEN <<V(children[1])>>
    ELSE IF Len(children) = 2 /\ IsTree(children[1]) /\ children[1].data = "unary_not"
    THEN <<W("NOT "), V(children[2])>>
    ELSE IF Len(children) = 2 /\ IsTree(children[1]) /\ children[1].data = "unary_neg"
    THEN <<W("-"), V(children[2])>>
    ELSE Unsupported(<<Txt("unsupported unary expression")>>,
            <<Txt("unary has "), Val(ToString(Len(children))), Txt(" children")>>)

member(c, tree) ==
    IF Len(tree.children) = 1 THEN <<V(tree.children[1])>>
    ELSE Unsupported(<<Txt("unsupported member expression")>>,
            <<Txt("member has "), Val(ToString(Len(tree.children))), Txt(" children")>>)

primary(c, tree) ==
    IF Len(tree.children) = 1 THEN <<V(tree.children[1])>>
    ELSE Unsupported(<<Txt("unsupported primary expression")>>,
            <<Txt("primary has "), Val(ToString(Len(tree.children))), Txt(" children")>>)

RECURSIVE JsonChain(_, _)
\* _build_json_path: the field names of a member_dot chain, the root's
\* first, and the node the chain starts from
JsonChain(node, parts) ==
    IF IsTree(node) /\ node.data = "member_dot"
    THEN JsonChain(SkipMemberPrimary(node.children[1]),
                   <<node.children[2].text>> \o parts)
    ELSE [root |-> node, parts |-> parts]

RECURSIVE JsonAccess(_, _, _, _)
\* _build_json_path: the loop over the path segments from the i-th on
JsonAccess(d, base, parts, i) ==
    IF i > Len(parts) THEN base
    ELSE JsonAccess(d, write_json_field_access(d, base, parts[i], i = Len(parts)),
                    parts, i + 1)

\* _build_json_path taking the text accessor for the last two segments
_build_json_path_text_twice(c, tree) ==
    LET ch == JsonChain(tree, <<>>)
        n == Len(ch.parts)
    IN
    IF n < 2
    THEN <<V(ch.root), W("." \o ch.parts[1])>>
    ELSE write_json_field_access(c.dialect,
            JsonAccess(c.dialect, <<V(ch.root), W("." \o ch.parts[1])>>,
                       SubSeq(ch.parts, 1, n - 1), 2),
            ch.parts[n], TRUE)

_build_json_path(c, tree) ==
    LET ch == JsonChain(tree, <<>>) IN
    IF Len(ch.parts) < 2
    THEN <<V(ch.root), W("." \o ch.parts[1])>>
    ELSE JsonAccess(c.dialect, <<V(ch.root), W("." \o ch.parts[1])>>, ch.parts, 2)

member_dot(c, tree) ==
    LET obj == tree.children[1]
        field_name == tree.children[2].text
        table_name == _get_root_ident(obj)
        invalid == IF table_name # "" /\ ~_is_comprehension_var(c, table_name)
                   THEN _validate_field_in_schema(c, table_name,
                            _get_first_field(obj, field_name))
                   ELSE None
    IN
    IF invalid # None THEN <<R(invalid)>>
    ELSE IF /\ table_name # ""
            /\ _is_field_json(c, table_name, _get_first_field(obj, field_name))
    THEN _build_json_path(c, tree)
    ELSE <<V(obj), W(".")>>
            \o (IF validate_field_name(field_name) # None
                THEN <<R(validate_field_name(field_name))>>
                ELSE <<W(field_name)>>)

member_index(c, tree) ==
    LET obj == tree.children[1]
        index_expr == tree.children[2]
        index_literal == _get_literal_token(index_expr)
    IN
    IF index_literal # None /\ _is_string_token(index_literal)
    THEN LET raw_key == Join(_strip_quotes(index_literal.text)) IN
         IF validate_field_name(raw_key) # None
         THEN <<R(validate_field_name(raw_key))>>
         ELSE <<V(obj), W("." \o raw_key)>>
    ELSE IF index_literal # None /\ _is_int_token(index_literal)
    THEN LET text == index_literal.text IN
         IF ~IsDecimalText(text) THEN <<R([type |-> "ValueError"])>>
         ELSE IF DecNegative(text)
         THEN <<R(ConversionError("InvalidArgumentsError",
                    <<Txt("negative array index not supported")>>,
                    <<Txt("array index "), Val(text), Txt(" is negative")>>))>>
         ELSE IF DecGreater(DecMagnitude(text), TWO_POW_31)
         THEN <<R(ConversionError("InvalidArgumentsError",
                    <<Txt("array index overflow")>>,
                    <<Txt("array index "), Val(text), Txt(" is too large")>>))>>
         ELSE write_list_index_const(c.dialect, <<V(obj)>>, DecMagnitude(text))
    ELSE write_list_index(c.dialect, <<V(obj)>>, <<V(index_expr)>>)

ident(c, tree) ==
    LET name == tree.children[1].text IN
    IF ~_is_comprehension_var(c, name) /\ validate_field_name(name) # None
    THEN <<R(validate_field_name(name))>>
    ELSE <<W(name)>>

paren_expr(c, tree) == <<W("("), V(tree.children[1]), W(")")>>

\* the steps that render each tree of a list, ", " between them
RECURSIVE CommaVisits(_, _)
CommaVisits(trees, first) ==
    IF trees = <<>> THEN <<>>
    ELSE (IF first THEN <<>> ELSE <<W(", ")>>) \o <<V(Head(trees))>>
            \o CommaVisits(Tail(trees), FALSE)

\* literal with unsigned literals written inline in every mode
literal_uint_inline(c, tree) ==
    LET token == tree.children[1] IN
    IF ~IsToken(token)
    THEN Unsupported(<<Txt("unexpected literal structure")>>, <<>>)
    ELSE IF _is_null_token(token) THEN <<W("NULL")>>
    ELSE IF _is_bool_token(token)
    THEN <<W(IF Lower(token.text) = "true" THEN "TRUE" ELSE "FALSE")>>
    ELSE IF _is_int_token(token)
    THEN LET val == ParseInt(token.text) IN
         IF c.parameterize THEN <<P([int |-> val])>> ELSE <<WL(ToString(val))>>
    ELSE IF _is_uint_token(token)
    THEN LET val == ParseInt(RStripU(token.text)) IN <<WL(ToString(val))>>
    ELSE IF _is_float_token(token)
    THEN IF c.parameterize THEN <<P([float |-> FloatValue(token.text)])>>
         ELSE <<WL(token.text)>>
    ELSE IF _is_string_token(token)
    THEN LET raw == StringValue(token) IN
         IF validate_no_null_bytes(raw, "string literals") # None
         THEN <<R(validate_no_null_bytes(raw, "string literals"))>>
         ELSE IF c.parameterize THEN <<P([str |-> Join(raw)])>>
         ELSE <<WL(write_string_literal(c.dialect, raw))>>
    ELSE IF _is_bytes_token(token)
    THEN LET byte_val == _strip_quotes(Tail(token.text)) IN
         IF ~c.parameterize /\ Len(byte_val) > MAX_BYTE_ARRAY_LENGTH
         THEN <<R(ConversionError("InvalidByteArrayLengthError",
                    <<Txt("byte array too long")>>,
                    <<Txt("byte array length "), Val(ToString(Len(byte_val))),
                      Txt(" exceeds limit 10000")>>))>>
         ELSE IF c.parameterize THEN <<P([bytes |-> Join(byte_val)])>>
         ELSE <<WL(write_bytes_literal(c.dialect, byte_val))>>
    ELSE Unsupported(<<Txt("unsupported literal type")>>,
            <<Txt("unknown token type: "), Val(token.type)>>)

\* literal with a bytes literal of exactly the allowed length refused
literal_bytes_ge(c, tree) ==
    LET token == tree.children[1] IN
    IF ~IsToken(token)
    THEN Unsupported(<<Txt("unexpected literal structure")>>, <<>>)
    ELSE IF _is_null_token(token) THEN <<W("NULL")>>
    ELSE IF _is_bool_token(token)
    THEN <<W(IF Lower(token.text) = "true" THEN "TRUE" ELSE "FALSE")>>
    ELSE IF _is_int_token(token)
    THEN LET val == ParseInt(token.text) IN
         IF c.parameterize THEN <<P([int |-> val])>> ELSE <<WL(ToString(val))>>
    ELSE IF _is_uint_token(token)
    THEN LET val == ParseInt(RStripU(token.text)) IN
         IF c.parameterize THEN <<P([int |-> val])>> ELSE <<WL(ToString(val))>>
    ELSE IF _is_float_token(token)
    THEN IF c.parameterize THEN <<P([float |-> FloatValue(token.text)])>>
         ELSE <<WL(token.text)>>
    ELSE IF _is_string_token(token)
    THEN LET raw == StringValue(token) IN
         IF validate_no_null_bytes(raw, "string literals") # None
         THEN <<R(validate_no_null_bytes(raw, "string literals"))>>
         ELSE IF c.parameterize THEN <<P([str |-> Join(raw)])>>
         ELSE <<WL(write_string_literal(c.dialect, raw))>>
    ELSE IF _is_bytes_token(token)
    THEN LET byte_val == _strip_quotes(Tail(token.text)) IN
         IF ~c.parameterize /\ Len(byte_val) >= MAX_BYTE_ARRAY_LENGTH
         THEN <<R(ConversionError("InvalidByteArrayLengthError",
                    <<Txt("byte array too long")>>,
                    <<Txt("byte array length "), Val(ToString(Len(byte_val))),
                      Txt(" exceeds limit 10000")>>))>>
         ELSE IF c.parameterize THEN <<P([bytes |-> Join(byte_val)])>>
         ELSE <<WL(write_bytes_literal(c.dialect, byte_val))>>
    ELSE Unsupported(<<Txt("unsupported literal type")>>,
            <<Txt("unknown token type: "), Val(token.type)>>)


\* literal with boolean literals parameterized like the others
literal_bool_param(c, tree) ==
    LET token == tree.children[1] IN
    IF ~IsToken(token)
    THEN Unsupported(<<Txt("unexpected literal structure")>>, <<>>)
    ELSE IF _is_null_token(token) THEN <<W("NULL")>>
    ELSE IF _is_bool_token(token)
    THEN IF c.parameterize THEN <<P([bool |-> Lower(token.text) = "true"])>>
         ELSE <<W(IF Lower(token.text) = "true" THEN "TRUE" ELSE "FALSE")>>
    ELSE IF _is_int_token(token)
    THEN LET val == ParseInt(token.text) IN
         IF c.parameterize THEN <<P([int |-> val])>> ELSE <<WL(ToString(val))>>
    ELSE IF _is_uint_token(token)
    THEN LET val == ParseInt(RStripU(token.text)) IN
         IF c.parameterize THEN <<P([int |-> val])>> ELSE <<WL(ToString(val))>>
    ELSE IF _is_float_token(token)
    THEN IF c.parameterize THEN <<P([float |-> FloatValue(token.text)])>>
         ELSE <<WL(token.text)>>
    ELSE IF _is_string_token(token)
    THEN LET raw == StringValue(token) IN
         IF validate_no_null_bytes(raw, "string literals") # None
         THEN <<R(validate_no_null_bytes(raw, "string literals"))>>
         ELSE IF c.parameterize THEN <<P([str |-> Join(raw)])>>
         ELSE <<WL(write_string_literal(c.dialect, raw))>>
    ELSE IF _is_bytes_token(token)
    THEN LET byte_val == _strip_quotes(Tail(token.text)) IN
         IF ~c.parameterize /\ Len(byte_val) > MAX_BYTE_ARRAY_LENGTH
         THEN <<R(ConversionError("InvalidByteArrayLengthError",
                    <<Txt("byte array too long")>>,
                    <<Txt("byte array length "), Val(ToString(Len(byte_val))),
                      Txt(" exceeds limit 10000")>>))>>
         ELSE IF c.parameterize THEN <<P([bytes |-> Join(byte_val)])>>
         ELSE <<WL(write_bytes_literal(c.dialect, byte_val))>>
    ELSE Unsupported(<<Txt("unsupported literal type")>>,
            <<Txt("unknown token type: "), Val(token.type)>>)

literal(c, tree) ==
    LET token == tree.children[1] IN
    IF ~IsToken(token)
    THEN Unsupported(<<Txt("unexpected literal structure")>>, <<>>)
    ELSE IF _is_null_token(token) THEN <<W("NULL")>>
    ELSE IF _is_bool_token(token)
    THEN <<W(IF Lower(token.text) = "true" THEN "TRUE" ELSE "FALSE")>>
    ELSE IF _is_int_token(token)
    THEN LET val == ParseInt(token.text) IN
         IF c.parameterize THEN <<P([int |-> val])>> ELSE <<WL(ToString(val))>>
    ELSE IF _is_uint_token(token)
    THEN LET val == ParseInt(RStripU(token.text)) IN
         IF c.parameterize THEN <<P([int |-> val])>> ELSE <<WL(ToString(val))>>
    ELSE IF _is_float_token(token)
    THEN IF c.parameterize THEN <<P([float |-> FloatValue(token.text)])>>
         ELSE <<WL(token.text)>>
    ELSE IF _is_string_token(token)
    THEN LET raw == StringValue(token) IN
         IF validate_no_null_bytes(raw, "string literals") # None
         THEN <<R(validate_no_null_bytes(raw, "string literals"))>>
         ELSE IF c.parameterize THEN <<P([str |-> Join(raw)])>>
         ELSE <<WL(write_string_literal(c.dialect, raw))>>
    ELSE IF _is_bytes_token(token)
    THEN LET byte_val == _strip_quotes(Tail(token.text)) IN
         IF ~c.parameterize /\ Len(byte_val) > MAX_BYTE_ARRAY_LENGTH
         THEN <<R(ConversionError("InvalidByteArrayLengthError",
                    <<Txt("byte array too long")>>,
                    <<Txt("byte array length "), Val(ToString(Len(byte_val))),
                      Txt(" exceeds limit 10000")>>))>>
         ELSE IF c.parameterize THEN <<P([bytes |-> Join(byte_val)])>>
         ELSE <<WL(write_bytes_literal(c.dialect, byte_val))>>
    ELSE Unsupported(<<Txt("unsupported literal type")>>,
            <<Txt("unknown token type: "), Val(token.type)>>)

list_lit(c, tree) ==
    write_array_literal_open(c.dialect)
       \o (IF /\ Len(tree.children) > 0
              /\ IsTree(tree.children[1])
              /\ tree.children[1].data = "exprlist"
           THEN CommaVisits(tree.children[1].children, TRUE)
           ELSE <<>>)
       \o write_array_literal_close(c.dialect)

exprlist(c, tree) == CommaVisits(tree.children, TRUE)


(***************************************************************************)
(* Converter: string methods                                               *)
(***************************************************************************)
_visit_contains(c, obj, args) ==
    IF Len(args) # 1 THEN InvalidArguments("contains() requires exactly 1 argument")
    ELSE
    LET needle_token == _get_literal_token(args[1])
        e == IF needle_token # None /\ _is_string_token(needle_token)
             THEN validate_no_null_bytes(StringValue(needle_token), "string literals")
             ELSE None
    IN
    IF e # None THEN <<R(e)>>
    ELSE write_contains(c.dialect, <<V(obj)>>, <<V(args[1])>>)

\* _visit_like with an argument that is not a string literal compared as it is
_visit_like_any(c, obj, args, at_start) ==
    LET fname == IF at_start THEN "startsWith()" ELSE "endsWith()" IN
    IF Len(args) # 1 THEN InvalidArguments(fname \o " requires exactly 1 argument")
    ELSE
    LET token == _get_literal_token(args[1]) IN
    IF token = None \/ ~_is_string_token(token)
    THEN <<V(obj), W(" LIKE "), V(args[1])>>
    ELSE
    LET raw == StringValue(token)
        e == validate_no_null_bytes(raw, "LIKE patterns")
        escaped == Join(escape_like_pattern(raw))
    IN
    IF e # None THEN <<R(e)>>
    ELSE <<V(obj),
           W(IF at_start THEN " LIKE '" \o escaped \o "%'"
                         ELSE " LIKE '%" \o escaped \o "'")>>
            \o write_like_escape(c.dialect)

\* startsWith (at_start) and endsWith
_visit_like(c, obj, args, at_start) ==
    LET fname == IF at_start THEN "startsWith()" ELSE "endsWith()" IN
    IF Len(args) # 1 THEN InvalidArguments(fname \o " requires exactly 1 argument")
    ELSE
    LET token == _get_literal_token(args[1]) IN
    IF token = None \/ ~_is_string_token(token)
    THEN InvalidArguments(fname \o " requires a string literal argument")
    ELSE
    LET raw == StringValue(token)
        e == validate_no_null_bytes(raw, "LIKE patterns")
        escaped == Join(escape_like_pattern(raw))
    IN
    IF e # None THEN <<R(e)>>
    ELSE <<V(obj),
           W(IF at_start THEN " LIKE '" \o escaped \o "%'"
                         ELSE " LIKE '%" \o escaped \o "'")>>
            \o write_like_escape(c.dialect)

_visit_starts_with(c, obj, args) == _visit_like(c, obj, args, TRUE)
_visit_ends_with(c, obj, args) == _visit_like(c, obj, args, FALSE)

_visit_index_of(c, obj, args) ==
    IF Len(args) < 1 \/ Len(args) > 2
    THEN InvalidArguments("indexOf() requires 1 or 2 arguments")
    ELSE IF Len(args) = 1
    THEN <<W("CASE WHEN POSITION("), V(args[1]), W(" IN "), V(obj),
           W(") > 0 THEN POSITION("), V(args[1]), W(" IN "), V(obj),
           W(") - 1 ELSE -1 END")>>
    ELSE
    LET offset_literal == _get_literal_token(args[2]) IN
    IF offset_literal # None /\ _is_int_token(offset_literal)
    THEN LET offset == ParseInt(offset_literal.text) IN
         <<W("CASE WHEN POSITION("), V(args[1]), W(" IN SUBSTRING("), V(obj),
           W(", " \o ToString(offset + 1) \o "))"),
           W(" > 0 THEN POSITION("), V(args[1]), W(" IN SUBSTRING("), V(obj),
           W(", " \o ToString(offset + 1) \o "))"),
           W(" + " \o ToString(offset) \o " - 1 ELSE -1 END")>>
    ELSE <<W("CASE WHEN POSITION("), V(args[1]), W(" IN SUBSTRING("), V(obj),
           W(", "), V(args[2]), W(" + 1))"),
           W(" > 0 THEN POSITION("), V(args[1]), W(" IN SUBSTRING("), V(obj),
           W(", "), V(args[2]), W(" + 1))"),
           W(" + "), V(args[2]), W(" - 1 ELSE -1 END")>>

Letters == CharSet(LowerCase) \cup CharSet(UpperCase)
_SUPPORTED_SPECIFIERS == {"s", "d", "f", "o", "e", "E", "g", "G"}

RECURSIVE FormatSpecifiers(_)
\* the letters matched by re.finditer(r"%([a-zA-Z])", s), in order
FormatSpecifiers(s) ==
    IF Len(s) < 2 THEN <<>>
    ELSE IF s[1] = "%" /\ s[2] \in Letters
         THEN <<s[2]>> \o FormatSpecifiers(SubSeq(s, 3, Len(s)))
    ELSE FormatSpecifiers(Tail(s))

RECURSIVE FormatToSql(_)
\* re.sub(r"%([dfoFeEgG])", "%s", s)
FormatToSql(s) ==
    IF Len(s) < 2 THEN s
    ELSE IF s[1] = "%" /\ s[2] \in {"d", "f", "o", "F", "e", "E", "g", "G"}
         THEN <<"%", "s">> \o FormatToSql(SubSeq(s, 3, Len(s)))
    ELSE <<s[1]>> \o FormatToSql(Tail(s))

RECURSIVE VisitsAfterComma(_)
VisitsAfterComma(trees) ==
    IF trees = <<>> THEN <<>>
    ELSE <<W(", "), V(Head(trees))>> \o VisitsAfterComma(Tail(trees))

_visit_format(c, obj, args) ==
    IF Len(args) # 1
    THEN InvalidArguments("format() requires exactly 1 argument (the arg list)")
    ELSE
    LET fmt_token == _get_literal_token(obj) IN
    IF fmt_token = None \/ ~_is_string_token(fmt_token)
    THEN InvalidArguments("format() requires a string literal format")
    ELSE
    LET raw_fmt == StringValue(fmt_token)
        specs == FormatSpecifiers(raw_fmt)
        bad == {i \in DOMAIN specs : specs[i] \notin _SUPPORTED_SPECIFIERS}
    IN
    IF bad # {}
    THEN LET spec == specs[CHOOSE i \in bad : \A j \in bad : i <= j] IN
         <<R(ConversionError("UnsupportedOperationError",
                <<Txt("unsupported format specifier %"), Val(spec)>>,
                <<Txt("format specifier %"), Val(spec),
                  Txt(" cannot be converted to SQL")>>))>>
    ELSE
    LET list_node == _unwrap_to_data(args[1], "list_lit") IN
    <<W("FORMAT("), W(write_string_literal(c.dialect, FormatToSql(raw_fmt)))>>
       \o (IF /\ list_node # None
              /\ Len(list_node.children) > 0
              /\ IsTree(list_node.children[1])
              /\ list_node.children[1].data = "exprlist"
           THEN VisitsAfterComma(list_node.children[1].children)
           ELSE <<>>)
       \o <<W(")")>>

(***************************************************************************)
(* Converter: comprehension macros                                         *)
(***************************************************************************)
_write_unnest_source(c, source, iter_var) ==
    write_unnest(c.dialect, <<V(source)>>) \o <<W(" AS " \o iter_var)>>

\* a macro body: the loop variable is taken from args[1] and bound around
\* the steps of the body
Scoped(args, body) ==
    IF _get_ident_name(args[1]) = "" THEN <<R(_get_ident_name_error(args[1]))>>
    ELSE <<Bind(_get_ident_name(args[1]))>> \o body

_visit_comp_all(c, source, args) ==
    IF Len(args) # 2 THEN InvalidArguments("all() requires exactly 2 arguments")
    ELSE Scoped(args,
            <<W("NOT EXISTS (SELECT 1 FROM ")>>
               \o _write_unnest_source(c, source, _get_ident_name(args[1]))
               \o <<W(" WHERE NOT ("), V(args[2]), W("))")>>)

_visit_comp_exists(c, source, args) ==
    IF Len(args) # 2 THEN InvalidArguments("exists() requires exactly 2 arguments")
    ELSE Scoped(args,
            <<W("EXISTS (SELECT 1 FROM ")>>
               \o _write_unnest_source(c, source, _get_ident_name(args[1]))
               \o <<W(" WHERE "), V(args[2]), W(")")>>)

_visit_comp_exists_one(c, source, args) ==
    IF Len(args) # 2 THEN InvalidArguments("exists_one() requires exactly 2 arguments")
    ELSE Scoped(args,
            <<W("(SELECT COUNT(*) FROM ")>>
               \o _write_unnest_source(c, source, _get_ident_name(args[1]))
               \o <<W(" WHERE "), V(args[2]), W(") = 1")>>)

_visit_comp_map(c, source, args) ==
    IF Len(args) # 2 THEN InvalidArguments("map() requires exactly 2 arguments")
    ELSE Scoped(args,
            write_array_subquery_open(c.dialect)
               \o <<V(args[2])>>
               \o write_array_subquery_expr_close(c.dialect)
               \o <<W(" FROM ")>>
               \o _write_unnest_source(c, source, _get_ident_name(args[1]))
               \o <<W(")")>>)

_visit_comp_map_filter(c, source, args) ==
    Scoped(args,
        write_array_subquery_open(c.dialect)
           \o <<V(args[3])>>
           \o write_array_subquery_expr_close(c.dialect)
           \o <<W(" FROM ")>>
           \o _write_unnest_source(c, source, _get_ident_name(args[1]))
           \o <<W(" WHERE "), V(args[2]), W(")")>>)

_visit_comp_filter(c, source, args) ==
    IF Len(args) # 2 THEN InvalidArguments("filter() requires exactly 2 arguments")
    ELSE Scoped(args,
            write_array_subquery_open(c.dialect)
               \o <<W(_get_ident_name(args[1]))>>
               \o write_array_subquery_expr_close(c.dialect)
               \o <<W(" FROM ")>>
               \o _write_unnest_source(c, source, _get_ident_name(args[1]))
               \o <<W(" WHERE "), V(args[2]), W(")")>>)

ComprehensionMacros == {"all", "exists", "exists_one", "map", "filter"}

\* _visit_comprehension with the open macros compared by > (one more allowed)
_visit_comprehension_gt(c, source, macro_name, args) ==
    IF c.comprehension_depth > MAX_COMPREHENSION_DEPTH
    THEN <<R(ConversionError("MaxComprehensionDepthExceededError",
                <<Txt("comprehension nesting depth exceeded")>>,
                <<Txt("depth "), Val(ToString(c.comprehension_depth)),
                  Txt(" exceeds limit 3")>>))>>
    ELSE <<IncComp>> \o
         (CASE macro_name = "all" -> _visit_comp_all(c, source, args)
            [] macro_name = "exists" -> _visit_comp_exists(c, source, args)
            [] macro_name = "exists_one" -> _visit_comp_exists_one(c, source, args)
            [] macro_name = "map" ->
                  IF Len(args) = 3 THEN _visit_comp_map_filter(c, source, args)
                  ELSE _visit_comp_map(c, source, args)
            [] macro_name = "filter" -> _visit_comp_filter(c, source, args))

_visit_comprehension(c, source, macro_name, args) ==
    IF c.comprehension_depth >= MAX_COMPREHENSION_DEPTH
    THEN <<R(ConversionError("MaxComprehensionDepthExceededError",
                <<Txt("comprehension nesting depth exceeded")>>,
                <<Txt("depth "), Val(ToString(c.comprehension_depth)),
                  Txt(" exceeds limit 3")>>))>>
    ELSE <<IncComp>> \o
         (CASE macro_name = "all" -> _visit_comp_all(c, source, args)
            [] macro_name = "exists" -> _visit_comp_exists(c, source, args)
            [] macro_name = "exists_one" -> _visit_comp_exists_one(c, source, args)
            [] macro_name = "map" ->
                  IF Len(args) = 3 THEN _visit_comp_map_filter(c, source, args)
                  ELSE _visit_comp_map(c, source, args)
            [] macro_name = "filter" -> _visit_comp_filter(c, source, args))

(***************************************************************************)
(* Converter: method and function calls                                    *)
(***************************************************************************)
\* The methods rendered here; size, matches, charAt, lastIndexOf, substring,
\* replace, split, join and the timestamp getters are dispatched by name in
\* the same way and are outside the expressions explored.
\* matches as a method (as_method) and as a function: what follows the check
\* of the pattern argument
MatchesPattern(c, target, token, message) ==
    IF token = None \/ ~_is_string_token(token)
    THEN InvalidArguments(message)
    ELSE
    LET converted == convert_regex(c.dialect, StringValue(token)) IN
    IF "err" \in DOMAIN converted THEN <<R(converted.err)>>
    ELSE write_regex_match(c.dialect, <<V(target)>>, converted.pattern,
                           converted.case_insensitive)

_visit_matches_method(c, obj, args) ==
    IF Len(args) # 1 THEN InvalidArguments("matches() requires exactly 1 argument")
    ELSE MatchesPattern(c, obj, _get_literal_token(args[1]),
                        "matches() requires a string literal argument")

_visit_matches_func(c, target, pattern_expr) ==
    MatchesPattern(c, target, _get_literal_token(pattern_expr),
                   "matches() requires a string literal pattern")

_visit_split(c, obj, args) ==
    IF Len(args) < 1 \/ Len(args) > 2
    THEN InvalidArguments("split() requires 1 or 2 arguments")
    ELSE IF Len(args) = 1
    THEN write_split(c.dialect, <<V(obj)>>, <<V(args[1])>>)
    ELSE
    LET limit_token == _get_literal_token(args[2]) IN
    IF limit_token # None /\ _is_int_token(limit_token)
    THEN LET limit == ParseInt(limit_token.text) IN
         IF limit = 0 - 1 THEN write_split(c.dialect, <<V(obj)>>, <<V(args[1])>>)
         ELSE IF limit = 0 THEN write_empty_typed_array(c.dialect, "text")
         ELSE IF limit = 1
         THEN write_array_literal_open(c.dialect) \o <<V(obj)>>
                 \o write_array_literal_close(c.dialect)
         ELSE IF limit < 0 - 1
         THEN <<R(ConversionError("UnsupportedOperationError",
                    <<Txt("split() with negative limit other than -1 is not supported")>>,
                    <<Txt("split() limit="), Val(ToString(limit)), Txt(" not supported")>>))>>
         ELSE write_split_with_limit(c.dialect, <<V(obj)>>, <<V(args[1])>>, limit)
    ELSE InvalidArguments("split() limit must be an integer literal")

_visit_join(c, obj, args) ==
    IF Len(args) > 1 THEN InvalidArguments("join() requires 0 or 1 arguments")
    ELSE IF Len(args) = 0
    THEN write_join(c.dialect, <<V(obj)>>, <<W(write_string_literal(c.dialect, <<>>))>>)
    ELSE write_join(c.dialect, <<V(obj)>>, <<V(args[1])>>)

_visit_replace(c, obj, args) ==
    IF Len(args) < 2 \/ Len(args) > 3
    THEN InvalidArguments("replace() requires 2 or 3 arguments")
    ELSE
    LET limit_token == IF Len(args) = 3 THEN _get_literal_token(args[3]) ELSE None
        render == <<W("REPLACE("), V(obj), W(", "), V(args[1]), W(", "),
                    V(args[2]), W(")")>>
    IN
    IF limit_token # None /\ _is_int_token(limit_token)
    THEN IF ~IsDecimalText(limit_token.text) THEN <<R([type |-> "ValueError"])>>
         ELSE IF ~(DecNegative(limit_token.text) /\ DecMagnitude(limit_token.text) = "1")
         THEN <<R(ConversionError("UnsupportedOperationError",
                    <<Txt("replace() with limit != -1 is not supported")>>,
                    <<Txt("replace() limit="), Val(limit_token.text),
                      Txt(" not supported in SQL")>>))>>
         ELSE render
    ELSE render

member_dot_arg(c, tree) ==
    LET obj == tree.children[1]
        method_name == tree.children[2].text
        args == IF Len(tree.children) > 2 THEN tree.children[3].children ELSE <<>>
    IN
    CASE method_name \in ComprehensionMacros ->
            _visit_comprehension(c, obj, method_name, args)
      [] method_name = "contains" -> _visit_contains(c, obj, args)
      [] method_name = "startsWith" -> _visit_starts_with(c, obj, args)
      [] method_name = "endsWith" -> _visit_ends_with(c, obj, args)
      [] method_name = "matches" -> _visit_matches_method(c, obj, args)
      [] method_name = "lowerAscii" -> <<W("LOWER("), V(obj), W(")")>>
      [] method_name = "upperAscii" -> <<W("UPPER("), V(obj), W(")")>>
      [] method_name = "trim" -> <<W("TRIM("), V(obj), W(")")>>
      [] method_name = "indexOf" -> _visit_index_of(c, obj, args)
      [] method_name = "replace" -> _visit_replace(c, obj, args)
      [] method_name = "reverse" -> <<W("REVERSE("), V(obj), W(")")>>
      [] method_name = "split" -> _visit_split(c, obj, args)
      [] method_name = "join" -> _visit_join(c, obj, args)
      [] method_name = "format" -> _visit_format(c, obj, args)
      [] method_name \notin
            {"all", "exists", "exists_one", "map", "filter", "contains",
             "startsWith", "endsWith", "matches", "size", "lowerAscii",
             "upperAscii", "trim", "charAt", "indexOf", "lastIndexOf",
             "substring", "replace", "reverse", "split", "join", "format",
             "getFullYear", "getMonth", "getDate", "getDayOfMonth", "getHours",
             "getMinutes", "getSeconds", "getMilliseconds", "getDayOfYear",
             "getDayOfWeek"} ->
            Unsupported(<<Txt("unsupported method call")>>,
                <<Txt("unknown method: "), Val(method_name)>>)

UpperChar(ch) ==
    IF \E i \in 1..26 : SubSeq(LowerCase, i, i) = ch
    THEN LET i == CHOOSE j \in 1..26 : SubSeq(LowerCase, j, j) = ch
         IN SubSeq(UpperCase, i, i)
    ELSE ch

\* str.upper()
Upper(str) == Join([i \in 1..Len(str) |-> UpperChar(SubSeq(str, i, i))])

_visit_timestamp_func(c, args) ==
    IF Len(args) = 1 THEN write_timestamp_cast(c.dialect, <<V(args[1])>>)
    ELSE IF Len(args) = 2 THEN <<V(args[1]), W(" AT TIME ZONE "), V(args[2])>>
    ELSE InvalidArguments("timestamp() requires 1 or 2 arguments")

_visit_interval_func(c, args) ==
    IF Len(args) # 2 THEN InvalidArguments("interval() requires exactly 2 arguments")
    ELSE
    LET unit_token == _get_literal_token(args[2])
        ident_node == _unwrap_to_data(args[2], "ident")
    IN IF unit_token # None
       THEN write_interval(c.dialect, <<V(args[1])>>,
                IF _is_string_token(unit_token) \/ _is_bytes_token(unit_token)
                THEN Join(unit_token.text) ELSE unit_token.text)
       ELSE IF ident_node # None
       THEN write_interval(c.dialect, <<V(args[1])>>, ident_node.children[1].text)
       ELSE InvalidArguments("interval() requires a unit identifier")

\* matches(target, pattern), timestamp, interval and the generic call
\* NAME(args...); has, size, the casts and the other temporal constructors
\* are dispatched by name before the generic call and are outside the
\* expressions explored.
ident_arg(c, tree) ==
    LET func_name == tree.children[1].text
        args == IF Len(tree.children) > 1 THEN tree.children[2].children ELSE <<>>
    IN
    CASE func_name = "matches" /\ Len(args) = 2 ->
            _visit_matches_func(c, args[1], args[2])
      [] func_name = "timestamp" -> _visit_timestamp_func(c, args)
      [] func_name = "interval" -> _visit_interval_func(c, args)
      [] func_name = "matches" /\ Len(args) # 2 ->
            <<W(Upper(func_name)), W("(")>> \o CommaVisits(args, TRUE) \o <<W(")")>>
      [] func_name \notin
            {"has", "size", "matches", "bool", "bytes", "double", "int", "uint",
             "string", "timestamp", "duration", "interval", "date", "time",
             "datetime", "current_date", "current_datetime"} ->
            <<W(Upper(func_name)), W("(")>> \o CommaVisits(args, TRUE) \o <<W(")")>>

\* Interpreter.visit with the Converter's override: a Token is written as
\* it is, a Tree goes to the handler named by its data.
Handler(c, tree) ==
    IF IsToken(tree) THEN <<W(tree.text)>>
    ELSE
    CASE tree.data = "expr" -> expr(c, tree)
      [] tree.data = "conditionalor" -> conditionalor(c, tree)
      [] tree.data = "conditionaland" -> conditionaland(c, tree)
      [] tree.data = "relation" -> relation(c, tree)
      [] tree.data \in {"relation_eq", "relation_ne", "relation_lt", "relation_le",
                        "relation_gt", "relation_ge", "relation_in",
                        "addition_add", "addition_sub", "multiplication_mul",
                        "multiplication_div", "multiplication_mod"} ->
            operator_prefix(c, tree)
      [] tree.data = "addition" -> addition(c, tree)
      [] tree.data = "multiplication" -> multiplication(c, tree)
      [] tree.data = "unary" -> unary(c, tree)
      [] tree.data = "member" -> member(c, tree)
      [] tree.data = "primary" -> primary(c, tree)
      [] tree.data = "ident" -> ident(c, tree)
      [] tree.data = "paren_expr" -> paren_expr(c, tree)
      [] tree.data = "literal" -> literal(c, tree)
      [] tree.data = "list_lit" -> list_lit(c, tree)
      [] tree.data = "exprlist" -> exprlist(c, tree)
      [] tree.data = "member_dot" -> member_dot(c, tree)
      [] tree.data = "member_index" -> member_index(c, tree)
      [] tree.data = "member_dot_arg" -> member_dot_arg(c, tree)
      [] tree.data = "ident_arg" -> ident_arg(c, tree)


(***************************************************************************)
(* Index analysis (_analysis.py), run by analyze after the conversion      *)
(***************************************************************************)
_extract_column_name(node) ==
    LET RECURSIVE col(_)
        col(n) ==
            IF IsTree(n)
            THEN IF n.data = "ident" THEN n.children[1].text
                 ELSE IF n.data = "member_dot" THEN n.children[2].text
                 ELSE IF Len(n.children) = 1 THEN col(n.children[1])
                 ELSE ""
            ELSE IF n.type = "IDENT" THEN n.text ELSE ""
    IN col(node)

\* _pattern_priority with a regex match ranked no higher than a comparison
_pattern_priority_regex_low(pattern) ==
    CASE pattern \in {"COMPARISON", "REGEX_MATCH"} -> 1
      [] pattern = "ARRAY_MEMBERSHIP" -> 2
      [] pattern \in {"JSON_ACCESS", "ARRAY_COMPREHENSION",
                      "JSON_ARRAY_COMPREHENSION"} -> 3
      [] OTHER -> 0

_pattern_priority(pattern) ==
    CASE pattern = "COMPARISON" -> 1
      [] pattern = "ARRAY_MEMBERSHIP" -> 2
      [] pattern \in {"REGEX_MATCH", "JSON_ACCESS", "ARRAY_COMPREHENSION",
                      "JSON_ARRAY_COMPREHENSION"} -> 3
      [] OTHER -> 0

\* _add_pattern replacing the kept pattern on an equal priority too
_add_pattern_ge(patterns, pattern) ==
    IF \A i \in DOMAIN patterns : patterns[i].column # pattern.column
    THEN Append(patterns, pattern)
    ELSE LET i == CHOOSE j \in DOMAIN patterns : patterns[j].column = pattern.column IN
         IF _pattern_priority(pattern.pattern) >= _pattern_priority(patterns[i].pattern)
         THEN [patterns EXCEPT ![i] = pattern]
         ELSE patterns

\* IndexAnalyzer._add_pattern on the list of kept patterns (a dict in
\* insertion order)
_add_pattern(patterns, pattern) ==
    IF \A i \in DOMAIN patterns : patterns[i].column # pattern.column
    THEN Append(patterns, pattern)
    ELSE LET i == CHOOSE j \in DOMAIN patterns : patterns[j].column = pattern.column IN
         IF _pattern_priority(pattern.pattern) > _pattern_priority(patterns[i].pattern)
         THEN [patterns EXCEPT ![i] = pattern]
         ELSE patterns

IndexPattern(column, pattern, table_hint) ==
    [column |-> column, pattern |-> pattern, table_hint |-> table_hint]

\* IndexAnalyzer._is_field_json
IndexAnalyzer_is_field_json(schemas, table_name, field_name) ==
    /\ table_name \in DOMAIN schemas
    /\ field_name \in DOMAIN schemas[table_name]
    /\ (schemas[table_name][field_name].is_json
          \/ schemas[table_name][field_name].is_jsonb)

\* the patterns a node itself detects, in the order it adds them
NodePatterns(schemas, tree) ==
    IF tree.data = "relation" /\ Len(tree.children) = 2 /\ IsTree(tree.children[1])
    THEN LET op_node == tree.children[1]
             lhs == IF Len(op_node.children) > 0 THEN <<op_node.children[1]>> ELSE <<>>
             sides == lhs \o <<tree.children[2]>>
             cmp == [i \in DOMAIN sides |->
                        IndexPattern(_extract_column_name(sides[i]), "COMPARISON",
                                     _get_root_ident(sides[i]))]
         IN cmp \o (IF op_node.data = "relation_in" /\ lhs # <<>>
                    THEN <<IndexPattern(_extract_column_name(lhs[1]),
                                        "ARRAY_MEMBERSHIP", _get_root_ident(lhs[1]))>>
                    ELSE <<>>)
    ELSE IF tree.data = "member_dot"
    THEN LET obj == tree.children[1]
             table_name == _get_root_ident(obj)
             first_field == _get_first_field(obj, tree.children[2].text)
         IN IF table_name # "" /\ IndexAnalyzer_is_field_json(schemas, table_name, first_field)
            THEN <<IndexPattern(first_field, "JSON_ACCESS", table_name)>>
            ELSE <<>>
    ELSE IF tree.data = "member_dot_arg" /\ tree.children[2].text = "matches"
    THEN LET obj == tree.children[1] IN
         <<IndexPattern(_extract_column_name(obj), "REGEX_MATCH", _get_root_ident(obj))>>
    ELSE IF tree.data = "ident_arg" /\ tree.children[1].text = "matches"
            /\ Len(tree.children) > 1 /\ Len(tree.children[2].children) >= 1
    THEN LET target == tree.children[2].children[1] IN
         <<IndexPattern(_extract_column_name(target), "REGEX_MATCH",
                        _get_root_ident(target))>>
    ELSE IF tree.data = "member_dot_arg" /\ tree.children[2].text \in ComprehensionMacros
    THEN LET obj == tree.children[1]
             col == _extract_column_name(obj)
             root == _get_root_ident(obj)
             first_field == IF root # "" THEN _get_first_field(obj, col) ELSE col
             json == root # "" /\ IndexAnalyzer_is_field_json(schemas, root, first_field)
         IN IF col = "" THEN <<>>
            ELSE <<IndexPattern(first_field,
                       IF json THEN "JSON_ARRAY_COMPREHENSION" ELSE "ARRAY_COMPREHENSION",
                       root)>>
    ELSE <<>>

RECURSIVE AddAll(_, _)
AddAll(patterns, new) ==
    IF new = <<>> THEN patterns
    ELSE AddAll(IF Head(new).column = "" THEN patterns
                ELSE _add_pattern(patterns, Head(new)), Tail(new))

RECURSIVE IndexAnalyzer_visit(_, _, _)
\* IndexAnalyzer.visit: the node's own patterns, then its Tree children
IndexAnalyzer_visit(schemas, tree, patterns) ==
    IF IsToken(tree) THEN patterns
    ELSE LET RECURSIVE kids(_, _)
             kids(i, acc) ==
                 IF i > Len(tree.children) THEN acc
                 ELSE kids(i + 1, IndexAnalyzer_visit(schemas, tree.children[i], acc))
         IN kids(1, AddAll(patterns, NodePatterns(schemas, tree)))

_index_priority(index_type) ==
    CASE index_type \in {"btree", "art", "clustering"} -> 1
      [] index_type = "fulltext" -> 2
      [] index_type \in {"gin", "gist", "search_index"} -> 3
      [] OTHER -> 0

\* The dialects' index advisors are not among the sources.  Each dialect is
\* taken to advise its generic scalar index for a comparison and its most
\* specific index for the other patterns.
recommend_index(d, pattern) ==
    [column |-> pattern.column,
     index_type |->
        IF pattern.pattern = "COMPARISON"
        THEN (CASE d \in {"postgresql", "mysql", "sqlite"} -> "btree"
                [] d = "duckdb" -> "art"
                [] d = "bigquery" -> "clustering")
        ELSE (CASE d = "postgresql" -> "gin"
                [] d = "mysql" -> "fulltext"
                [] d = "bigquery" -> "search_index"
                [] d \in {"duckdb", "sqlite"} -> "none")]

RECURSIVE Recommend(_, _, _)
\* the loop of analyze_patterns over the kept patterns
Recommend(d, patterns, recs) ==
    IF patterns = <<>> THEN recs
    ELSE LET rec == recommend_index(d, Head(patterns))
             same == {i \in DOMAIN recs : recs[i].column = rec.column}
         IN Recommend(d, Tail(patterns),
               IF rec.index_type = "none" THEN recs
               ELSE IF same = {} THEN Append(recs, rec)
               ELSE LET i == CHOOSE j \in same : TRUE IN
                    IF _index_priority(rec.index_type) > _index_priority(recs[i].index_type)
                    THEN [recs EXCEPT ![i] = rec]
                    ELSE recs)

analyze_patterns(tree, d, schemas) ==
    Recommend(d, IndexAnalyzer_visit(schemas, tree, <<>>), <<>>)


(***************************************************************************)
(* The walk.  A frame of the stack is one _visit_child (or the root visit) *)
(* with the handler it runs: the steps of the handler, the position in     *)
(* them, and what its finally clauses undo when it is left.                *)
(***************************************************************************)
Frame(tree, ops, child) ==
    [tree |-> tree, ops |-> ops, pc |-> 1,
     child |-> child,      \* entered by _visit_child: finally depth -= 1
     comp |-> FALSE,       \* finally comprehension_depth -= 1 is armed
     var |-> ""]           \* finally discard(var) is armed

\* Converter.__init__
NewConverter(dialect, schemas, max_depth, max_output_length, parameterize, validate_schema) ==
    [w |-> <<>>, dialect |-> dialect, schemas |-> schemas,
     max_depth |-> max_depth, max_output_length |-> max_output_length,
     depth |-> 0, comprehension_depth |-> 0, parameterize |-> parameterize,
     parameters |-> <<>>, param_count |-> 0, comprehension_vars |-> {},
     validate_schema |-> validate_schema]

RECURSIVE tell(_)
\* self._w.tell(): the number of characters written
tell(w) == IF w = <<>> THEN 0 ELSE Len(Head(w).s) + tell(Tail(w))

\* Converter.result: self._w.getvalue()
result(w) == Join([i \in DOMAIN w |-> w[i].s])

\* _check_limits with the depth compared by >= (off by one)
_check_limits_ge(c) ==
    IF c.depth >= c.max_depth
    THEN ConversionError("MaxDepthExceededError",
            <<Txt("maximum recursion depth exceeded")>>,
            <<Txt("depth "), Val(ToString(c.depth)), Txt(" exceeds limit "),
              Val(ToString(c.max_depth))>>)
    ELSE IF tell(c.w) > c.max_output_length
    THEN ConversionError("MaxOutputLengthExceededError",
            <<Txt("maximum SQL output length exceeded")>>,
            <<Txt("output length exceeds limit "), Val(ToString(c.max_output_length))>>)
    ELSE None

\* _check_limits: None, or the error raised
_check_limits(c) ==
    IF c.depth > c.max_depth
    THEN ConversionError("MaxDepthExceededError",
            <<Txt("maximum recursion depth exceeded")>>,
            <<Txt("depth "), Val(ToString(c.depth)), Txt(" exceeds limit "),
              Val(ToString(c.max_depth))>>)
    ELSE IF tell(c.w) > c.max_output_length
    THEN ConversionError("MaxOutputLengthExceededError",
            <<Txt("maximum SQL output length exceeded")>>,
            <<Txt("output length exceeds limit "), Val(ToString(c.max_output_length))>>)
    ELSE None

\* _add_param without the increment of the counter
_add_param_uncounted(c, value) ==
    [c EXCEPT !.parameters = Append(@, value)]

\* _add_param: the Converter after it
_add_param(c, value) ==
    [c EXCEPT !.param_count = @ + 1, !.parameters = Append(@, value)]

\* set.discard: what a macro's finally clause does to the bound names
Discard(vars, v) == vars \ {v}

\* the finally clauses of a frame that is left, innermost first
Finally(c, f) ==
    [c EXCEPT !.comprehension_vars = IF f.var # "" THEN Discard(@, f.var) ELSE @,
              !.comprehension_depth = IF f.comp THEN @ - 1 ELSE @,
              !.depth = IF f.child THEN @ - 1 ELSE @]

\* A machine m is the Converter, the stack and the exception in flight.
Top(m) == m.stack[Len(m.stack)]
AtEnd(m) == Top(m).pc > Len(Top(m).ops)
CurOp(m) == Top(m).ops[Top(m).pc]
Advance(st) == [st EXCEPT ![Len(st)].pc = @ + 1]
Pop(st) == SubSeq(st, 1, Len(st) - 1)

\* which step the walk takes next
Kind(m) ==
    IF m.stack = <<>> THEN "end"
    ELSE IF m.exc # None THEN "unwind"
    ELSE IF AtEnd(m) THEN "return"
    ELSE CurOp(m).op

DoWrite(m) ==
    [m EXCEPT !.cv.w = Append(@, [s |-> CurOp(m).s, k |-> CurOp(m).k, i |-> 0]),
              !.stack = Advance(@)]

DoParam(m) ==
    LET c == _add_param(m.cv, CurOp(m).v)
        idx == c.param_count
    IN [m EXCEPT !.cv = [c EXCEPT !.w = Append(@,
                            [s |-> write_param_placeholder(c.dialect, idx),
                             k |-> "ph", i |-> idx])],
                 !.stack = Advance(@)]

\* _visit_child: depth += 1, then _check_limits, then the child's handler
DoVisit(m) ==
    LET c == [m.cv EXCEPT !.depth = @ + 1]
        e == _check_limits(c)
        t == CurOp(m).t
    IN IF e # None
       THEN [m EXCEPT !.cv = c, !.exc = e,
                      !.stack = Append(@, Frame(t, <<>>, TRUE))]
       ELSE [m EXCEPT !.cv = c,
                      !.stack = Append(@, Frame(t, Handler(c, t), TRUE))]

DoRaise(m) == [m EXCEPT !.exc = CurOp(m).e]

DoBind(m) ==
    LET st == Advance(m.stack) IN
    [m EXCEPT !.cv.comprehension_vars = @ \cup {CurOp(m).v},
              !.stack = [st EXCEPT ![Len(st)].var = CurOp(m).v]]

DoIncComp(m) ==
    LET st == Advance(m.stack) IN
    [m EXCEPT !.cv.comprehension_depth = @ + 1,
              !.stack = [st EXCEPT ![Len(st)].comp = TRUE]]

\* a handler returns to the handler that visited it
DoReturn(m) ==
    [m EXCEPT !.cv = Finally(@, Top(m)),
              !.stack = IF Len(@) = 1 THEN <<>> ELSE Advance(Pop(@))]

\* a frame that catches the exception and lets its caller go on
DoUnwind_swallow(m) ==
    [m EXCEPT !.cv = Finally(@, Top(m)),
              !.stack = IF Len(@) = 1 THEN <<>> ELSE Advance(Pop(@)),
              !.exc = None]

\* the exception leaves a frame whose finally clauses are not run
DoUnwind_no_finally(m) == [m EXCEPT !.stack = Pop(@)]

\* the exception leaves a frame
DoUnwind(m) ==
    [m EXCEPT !.cv = Finally(@, Top(m)), !.stack = Pop(@)]

StepM(m) ==
    CASE Kind(m) = "write" -> DoWrite(m)
      [] Kind(m) = "param" -> DoParam(m)
      [] Kind(m) = "visit" -> DoVisit(m)
      [] Kind(m) = "raise" -> DoRaise(m)
      [] Kind(m) = "bind" -> DoBind(m)
      [] Kind(m) = "inc_comp" -> DoIncComp(m)
      [] Kind(m) = "return" -> DoReturn(m)
      [] Kind(m) = "unwind" -> DoUnwind(m)

\* converter.visit(tree) at the root: no depth increment, no limit check
StartWalk(c, tree) ==
    [cv |-> c, stack |-> <<Frame(tree, Handler(c, tree), FALSE)>>, exc |-> None]

\* the walk is over within 2^RunLog steps
RunLog == 10

RECURSIVE Steps(_, _)
\* 2^k steps of the walk, or as many as it has left
Steps(m, k) ==
    IF Kind(m) = "end" THEN m
    ELSE IF k = 0 THEN StepM(m)
    ELSE Steps(Steps(m, k - 1), k - 1)

\* the walk run to its end
RunM(m) == Steps(m, RunLog)


(***************************************************************************)
(* Expressions, as the parser delivers them: every operand sits under the  *)
(* single-child nodes of the precedence levels above it.                   *)
(***************************************************************************)
\* the level of the grammar a node belongs to (the index in Chain of the
\* node kind that may hold it, plus one)
LevelOf(node) ==
    IF \E i \in DOMAIN Chain : Chain[i] = node.data
    THEN CHOOSE i \in DOMAIN Chain : Chain[i] = node.data
    ELSE IF node.data \in {"member_dot_arg", "member_dot", "member_index"} THEN 9
    ELSE 10

\* node, where a tree of level `from` is expected
At(from, node) == Lift(from, LevelOf(node) - 1, node)

Rel(op, a, b) == T("relation", <<T(op, <<At(4, a)>>), At(5, b)>>)
And(a, b) == T("conditionaland", <<At(3, a), At(4, b)>>)
Or(a, b) == T("conditionalor", <<At(2, a), At(3, b)>>)
Ternary(a, b, e) == T("expr", <<At(2, a), At(2, b), At(1, e)>>)
Add(op, a, b) == T("addition", <<T(op, <<At(5, a)>>), At(6, b)>>)
Paren(e) == T("paren_expr", <<At(1, e)>>)
ExprList(es) == T("exprlist", [i \in DOMAIN es |-> At(1, es[i])])
List(es) == T("list_lit", <<ExprList(es)>>)
Call(obj, method, args) ==
    T("member_dot_arg", <<At(8, obj), Tok("IDENT", method), ExprList(args)>>)
\* obj.method()
Call0(obj, method) == T("member_dot_arg", <<At(8, obj), Tok("IDENT", method)>>)
\* func(args)
Func(name, args) == T("ident_arg", <<Tok("IDENT", name), ExprList(args)>>)
Dot(obj, field) == T("member_dot", <<At(8, obj), Tok("IDENT", field)>>)
Index(obj, e) == T("member_index", <<At(8, obj), At(1, e)>>)


(***************************************************************************)
(* The expressions converted                                               *)
(***************************************************************************)
NameI == Ident("name")
AgeI == Ident("age")
TagsI == Ident("tags")
NullL == Lit(Tok("NULL_LIT", "null"))
TrueL == Lit(Tok("BOOL_LIT", "true"))
FalseL == Lit(Tok("BOOL_LIT", "false"))
Int1 == Lit(Tok("INT_LIT", "1"))
Int7 == Lit(Tok("INT_LIT", "7"))
Uint2 == Lit(Tok("UINT_LIT", "2u"))
Float15 == Lit(Tok("FLOAT_LIT", "1.50"))
StrA == Lit(StrTok(<<"'", "a", "'">>))
StrQ == Lit(StrTok(<<"\"", "o", "'", "k", "\"">>))
BytesAB == Lit([type |-> "BYTES_LIT", text |-> <<"b", "\"", "a", "b", "\"">>])
\* b"\n" as it is written: a backslash and a letter between the quotes
BytesEsc == Lit([type |-> "BYTES_LIT", text |-> <<"b", "'", "\\", "n", "'">>])
\* a bytes literal of n letters
BytesOfLen(n) ==
    Lit([type |-> "BYTES_LIT", text |-> <<"b", "\"">> \o [i \in 1..n |-> "a"] \o <<"\"">>])

\* the string literal 'chars'
Str(text) == Lit(StrTok(<<"'">> \o Chars(text) \o <<"'">>))

\* the patterns tried with matches: quantified groups with and without a
\* quantifier inside, flags, classes, a null byte
RegexPatterns ==
    {"(a+)+", "(a*)*", "(a?b*)?", "(?i)(a+)+", "(?:a+)+", "((a+))+", "(a+b)+",
     "(a+)+\\0", "a+", "(ab)+", "(a+)", "^a.*b$", "\\\\d+\\\\b", "(?i)abc", "(?=a)",
     "(?P<n>a)", "a(?s)", "(?:ab)", "(a|ab)+", "(a|b)*", "x(?:ab|a)?y", "(a|b+)+",
     "(a|b)", "a|b+"}

MatchExprs ==
    {Call(NameI, "matches", <<Str(pat)>>) : pat \in RegexPatterns}
    \cup {Func("matches", <<NameI, Str(pat)>>) : pat \in RegexPatterns}
    \cup {Call(NameI, "matches", <<AgeI>>), Call(NameI, "matches", <<Int1>>),
          Func("matches", <<NameI, AgeI>>), Func("matches", <<NameI>>),
          Call0(NameI, "matches"), Call(NameI, "matches", <<StrA, StrA>>)}

\* contains, startsWith and endsWith with an argument that is no string literal
PatternArgExprs ==
    {Call(NameI, m, <<a>>) : m \in {"contains", "startsWith", "endsWith"},
                             a \in {AgeI, Int1, Call0(AgeI, "trim")}}

\* a timestamp column, a timestamp call and an interval
CreatedAt == Ident("created_at")
TimestampCall == Func("timestamp", <<Str("2021-09-01T18:00:00Z")>>)
IntervalCall == Func("interval", <<Int1, Ident("HOUR")>>)

\* + and - with the interval on either side
TemporalExprs ==
    {Add(op, a, IntervalCall) : op \in {"addition_add", "addition_sub"},
                                a \in {CreatedAt, TimestampCall}}
    \cup {Add(op, IntervalCall, a) : op \in {"addition_add", "addition_sub"},
                                     a \in {CreatedAt, TimestampCall}}
    \cup {Add("addition_add", IntervalCall, Paren(Add("addition_add", CreatedAt, IntervalCall))),
          Add("addition_add", Paren(Add("addition_sub", CreatedAt, IntervalCall)), IntervalCall),
          Add("addition_add", CreatedAt, Int1),
          Add("addition_sub", CreatedAt, Ident("updated_at"))}

\* + over strings, lists and numbers, the literal at several depths
ListOf1 == List(<<Int1>>)
ConcatExprs ==
    {Add("addition_add", a, b) :
        a \in {AgeI, StrA, ListOf1},
        b \in {Int1, StrA, ListOf1, Paren(ListOf1),
               Paren(Add("addition_add", AgeI, StrA)),
               Paren(Add("addition_add", AgeI, Int1)),
               Func("f", <<StrA>>), Func("f", <<ListOf1>>),
               Index(ListOf1, Lit(Tok("INT_LIT", "0")))}}
    \cup {Add("addition_add", Add("addition_add", ListOf1, List(<<Int7>>)), e) :
            e \in {ListOf1, AgeI}}
    \cup {Add("addition_add", Add("addition_add", AgeI, StrA), AgeI),
          Add("addition_sub", AgeI, StrA),
          Add("addition_sub", ListOf1, ListOf1)}

\* split and join, with every shape of the limit
SplitJoinExprs ==
    {Call(NameI, "split", <<Str(",")>>), Call(NameI, "split", <<AgeI>>),
     Call0(NameI, "split"), Call(NameI, "split", <<Str(","), AgeI>>),
     Call(NameI, "split", <<Str(","), Int1, Int1>>),
     Call0(TagsI, "join"), Call(TagsI, "join", <<Str(",")>>),
     Call(TagsI, "join", <<AgeI>>), Call(TagsI, "join", <<StrA, StrA>>)}
    \cup {Call(NameI, "split", <<Str(","), Lit(Tok("INT_LIT", n))>>) :
            n \in {"-2", "-1", "0", "1", "2"}}


\* the integer literals tried as an index
IndexTexts == {"-1", "-0", "0", "1", "2147483647", "2147483648", "2147483649",
               "9999999999", "0x10"}

\* t.tags[i], with a literal, an identifier and an unsigned literal as index
IndexExprs ==
    {Index(Dot(Ident("t"), "tags"), Lit(Tok("INT_LIT", i))) : i \in IndexTexts}
    \cup {Index(Dot(Ident("t"), "tags"), e) : e \in {AgeI, Uint2, StrA}}

\* bytes literals around the length allowed
ByteExprs ==
    {Rel("relation_eq", Ident("data"), BytesOfLen(n)) :
        n \in {MAX_BYTE_ARRAY_LENGTH - 1, MAX_BYTE_ARRAY_LENGTH, MAX_BYTE_ARRAY_LENGTH + 1}}
    \cup {Rel("relation_eq", Ident("data"), BytesEsc)}

GT1(v) == Rel("relation_gt", Ident(v), Int1)

\* how deep macros are nested in the expressions explored
MaxNesting == 4

\* names for the loop variables of nested macros
VarNames == <<"a", "b", "c", "d", "e", "f">>

RECURSIVE Nested(_, _, _)
\* macs[i] applied at level i with loop variable vars[i]; the body of every
\* level but the innermost is `<inner macro> && <var> > 1`, so the variable
\* is used after the inner macro has returned
Nested(macs, vars, i) ==
    LET src == IF i = 1 THEN TagsI ELSE Ident(vars[i - 1])
        body == IF i < Len(macs)
                THEN And(Nested(macs, vars, i + 1), GT1(vars[i]))
                ELSE GT1(vars[i])
    IN Call(src, macs[i], <<Ident(vars[i]), body>>)

MacroOrder == <<"exists", "all", "exists_one", "map", "filter">>

\* the macro kinds of the levels: one kind throughout, or the kinds in turn
Uniform(kind, n) == [i \in 1..n |-> kind]
InTurn(n) == [i \in 1..n |-> MacroOrder[((i - 1) % 5) + 1]]

Distinct(n) == [i \in 1..n |-> VarNames[i]]
Same(name, n) == [i \in 1..n |-> name]

NestedExprs ==
    {Nested(Uniform(k, n), Distinct(n), 1) : k \in ComprehensionMacros, n \in 1..MaxNesting}
    \cup {Nested(InTurn(n), Distinct(n), 1) : n \in 2..MaxNesting}
    \cup {Nested(InTurn(n), Same("order", n), 1) : n \in 1..2}
    \cup {Nested(Uniform("exists", 2), Same("x", 2), 1),
          And(Nested(Uniform("exists", 1), Same("x", 1), 1),
              Nested(Uniform("all", 1), Same("x", 1), 1)),
          Call(TagsI, "map", <<Ident("x"), GT1("x"), Add("addition_add", Ident("x"), Int7)>>)}

RelOperands == {NameI, NullL, TrueL, FalseL, Int1, StrA}

NullBoolExprs ==
    {Rel(op, a, b) : op \in {"relation_eq", "relation_ne"},
                     a \in {NullL, TrueL, FalseL}, b \in RelOperands}
    \cup {Rel(op, b, a) : op \in {"relation_eq", "relation_ne"},
                          a \in {NullL, TrueL, FalseL}, b \in RelOperands}
    \cup {Rel("relation_lt", NameI, TrueL),
          Rel("relation_eq", Paren(Rel("relation_eq", AgeI, Int1)), FalseL),
          And(Rel("relation_ne", NameI, NullL), Rel("relation_eq", TrueL, AgeI)),
          Ternary(Rel("relation_eq", NameI, NullL), TrueL, NullL),
          Ternary(TrueL, Int1, FalseL),
          Or(FalseL, Rel("relation_eq", NullL, NullL)),
          Rel("relation_in", NullL, List(<<TrueL, NullL, Int1>>)),
          T("ident_arg", <<Tok("IDENT", "coalesce"), ExprList(<<NullL, FalseL, StrA>>)>>)}

OperatorExprs ==
    {Rel(op, NameI, l) : op \in {"relation_eq", "relation_ge"},
                         l \in {Int1, Uint2, Float15, StrA, StrQ, BytesAB}}
    \cup {And(Rel("relation_eq", NameI, StrA), Rel("relation_gt", AgeI, Int7)),
          Or(Rel("relation_eq", Int7, AgeI), Rel("relation_ne", StrQ, NameI)),
          Ternary(Rel("relation_lt", AgeI, Int1), Uint2, Float15),
          Rel("relation_gt", Add("addition_add", AgeI, Int1), Int7),
          Rel("relation_eq", Add("addition_sub", Int7, Paren(Add("addition_add", Int1, AgeI))), Uint2),
          Add("addition_add", StrA, NameI),
          Ident("select")}

MethodExprs ==
    {Call(NameI, m, <<StrA>>) : m \in {"contains", "startsWith", "endsWith", "indexOf"}}
    \cup {Call(StrQ, "contains", <<StrA>>),
          Call(NameI, "contains", <<AgeI>>),
          Call(NameI, "startsWith", <<AgeI>>),
          Call(NameI, "nosuch", <<Int1>>),
          Call(Lit(StrTok(<<"'", "%", "s", "=", "%", "d", "'">>)), "format",
               <<List(<<NameI, Int7>>)>>),
          Call(Lit(StrTok(<<"'", "%", "b", "'">>)), "format", <<List(<<Int7>>)>>),
          Call(Lit(StrTok(<<"'", "%", "x", "'">>)), "format", <<List(<<Int7>>)>>),
          Rel("relation_in", NameI, List(<<StrA, StrQ>>)),
          Rel("relation_in", Int1, List(<<Int7, Uint2>>)),
          Call(TagsI, "map", <<Ident("x"), Add("addition_add", Ident("x"), Int7)>>),
          Call(List(<<Int1, Int7>>), "map", <<Ident("x"), Add("addition_add", Ident("x"), Uint2)>>),
          Call(List(<<Int1, Int7>>), "exists", <<Ident("x"), Rel("relation_gt", Ident("x"), Uint2)>>)}


\* FieldSchema(name, repeated=..., is_json=..., is_jsonb=...)
FieldSchema(repeated, is_json, is_jsonb) ==
    [repeated |-> repeated, is_json |-> is_json, is_jsonb |-> is_jsonb]

\* {"t": Schema([name, tags (repeated), meta (jsonb)]), "e": Schema([])}
SchemaT ==
    ("t" :> (("name" :> FieldSchema(FALSE, FALSE, FALSE))
             @@ ("tags" :> FieldSchema(TRUE, FALSE, FALSE))
             @@ ("meta" :> FieldSchema(FALSE, FALSE, TRUE))))
    @@ ("e" :> <<>>)

TableT == Ident("t")

\* t.tags.exists(x, x.tags.exists(x, x.a > 1) && x.b > 1)
SameNameAccess ==
    Call(Dot(TableT, "tags"), "exists",
         <<Ident("x"),
           And(Call(Dot(Ident("x"), "tags"), "exists",
                    <<Ident("x"), Rel("relation_gt", Dot(Ident("x"), "a"), Int1)>>),
               Rel("relation_gt", Dot(Ident("x"), "b"), Int1))>>)

FieldExprs ==
    {Rel("relation_eq", Dot(TableT, "name"), StrA),
     Rel("relation_eq", Dot(TableT, "nosuch"), StrA),
     Rel("relation_gt", Dot(Ident("u"), "name"), Int1),
     Dot(Ident("e"), "name"),
     Dot(Dot(TableT, "name"), "deep"),
     Dot(TableT, "select"),
     Rel("relation_eq", Dot(Dot(TableT, "meta"), "k"), StrA),
     Dot(Dot(Dot(TableT, "meta"), "k"), "j"),
     Dot(Dot(TableT, "conf"), "k"),
     And(Rel("relation_gt", AgeI, Int1), Rel("relation_eq", Dot(TableT, "nosuch"), Int1)),
     Call(Dot(TableT, "tags"), "exists",
          <<Ident("x"), Rel("relation_gt", Dot(Ident("x"), "f"), Int1)>>),
     Call(Dot(TableT, "tags"), "all", <<Ident("t"), GT1("t")>>),
     SameNameAccess,
     Dot(Index(Dot(TableT, "tags"), Int1), "f"),
     AgeI}


(***************************************************************************)
(* The calls explored: convert, convert_parameterized and analyze          *)
(***************************************************************************)
\* the largest max_depth and max_output_length tried below the defaults
MaxDepthTried == 12
MaxLengthTried == 8

\* expressions with several patterns on one column, in both orders
GtX == Rel("relation_gt", Ident("x"), Int1)
PatternExprs ==
    LET cmp == Rel("relation_eq", NameI, StrA)
        mem == Rel("relation_in", NameI, List(<<StrA>>))
        rgx == Call(NameI, "matches", <<Str("^a")>>)
        rgf == Func("matches", <<NameI, Str("^a")>>)
        cpr == Call(NameI, "exists", <<Ident("x"), GtX>>)
        one == {cmp, mem, rgx, rgf, cpr}
    IN {And(a, b) : a \in one, b \in one}
       \cup {And(cmp, And(rgx, cpr)), And(cmp, And(cpr, rgx)), And(And(mem, cmp), rgf)}

\* the same over the fields of table t, whose meta is a JSON field
SchemaPatternExprs ==
    LET cmp == Rel("relation_eq", Dot(TableT, "meta"), StrA)
        other == Rel("relation_eq", Dot(Ident("u"), "meta"), StrA)
        jsn == Rel("relation_eq", Dot(Dot(TableT, "meta"), "k"), StrA)
        jcp == Call(Dot(TableT, "meta"), "exists", <<Ident("x"), GtX>>)
        cpr == Call(Dot(TableT, "tags"), "exists", <<Ident("x"), GtX>>)
        one == {cmp, other, jsn, jcp, cpr}
    IN {And(a, b) : a \in one, b \in one}

NoSchemas == <<>>

CallOf(entry, e, dialect, max_depth, max_output_length, validate_schema) ==
    [entry |-> entry, tree |-> At(1, e), dialect |-> dialect, schemas |-> NoSchemas,
     max_depth |-> max_depth, max_output_length |-> max_output_length,
     validate_schema |-> validate_schema]

DefaultCall(entry, e, dialect) ==
    CallOf(entry, e, dialect, DEFAULT_MAX_RECURSION_DEPTH,
           DEFAULT_MAX_SQL_OUTPUT_LENGTH, FALSE)

Conversions == {"convert", "convert_parameterized"}
Entries == Conversions \cup {"analyze"}

SchemaCall(entry, e, dialect, schemas, validate_schema) ==
    [DefaultCall(entry, e, dialect) EXCEPT
        !.schemas = schemas, !.validate_schema = validate_schema]

LimitExprs ==
    {NameI, Paren(AgeI), Rel("relation_eq", AgeI, Int1), Rel("relation_eq", NameI, NullL),
     Rel("relation_ne", NameI, StrA)}

\* field chains below a JSON column (t.meta), a plain column (t.name) and a
\* table without a schema (u)
JsonExprs ==
    {Dot(Dot(TableT, "meta"), "k"),
     Dot(Dot(Dot(TableT, "meta"), "k"), "j"),
     Dot(Dot(Dot(Dot(TableT, "meta"), "k"), "j"), "i"),
     Dot(Dot(Dot(TableT, "meta"), "select"), "k"),
     Dot(Dot(TableT, "name"), "k"),
     Dot(Dot(Dot(TableT, "name"), "meta"), "k"),
     Dot(Dot(Ident("u"), "meta"), "k")}

\* comparisons of a JSON path, a JSON column and a plain column with
\* numeric literals, a string literal and other expressions
MetaK == Dot(Dot(TableT, "meta"), "k")
JsonCompareExprs ==
    {Rel("relation_gt", MetaK, Int1), Rel("relation_eq", Int1, MetaK),
     Rel("relation_lt", Dot(MetaK, "j"), Float15), Rel("relation_ge", MetaK, Uint2),
     Rel("relation_eq", MetaK, StrA), Rel("relation_ne", StrA, MetaK),
     Rel("relation_gt", MetaK, AgeI), Rel("relation_gt", MetaK, Dot(MetaK, "j")),
     Rel("relation_eq", MetaK, NullL), Rel("relation_eq", MetaK, TrueL),
     Rel("relation_gt", Dot(TableT, "name"), Int1),
     Rel("relation_gt", Dot(TableT, "meta"), Int1),
     Rel("relation_gt", Paren(MetaK), Int1),
     Rel("relation_gt", MetaK, Add("addition_add", Int1, Int1))}

\* sibling macros, more of them than macros may nest, and one that fails
\* after its siblings
Exists1(v) == Call(TagsI, "exists", <<Ident(v), GT1(v)>>)
SiblingExprs ==
    {And(And(And(And(Exists1("a"), Exists1("b")), Exists1("c")), Exists1("d")),
         Exists1("e")),
     And(And(And(Exists1("a"), Call(TagsI, "all", <<Ident("b"), GT1("b")>>)),
             Call(TagsI, "exists", <<Ident("c"), GT1("select")>>)),
         Exists1("d")),
     And(Exists1("a"), Call(TagsI, "filter", <<Ident("b")>>))}

\* macros whose source is rooted at an identifier with the loop variable's
\* name: a reserved word, and a table with a field that is not in its schema
SourceExprs ==
    {Call(Ident("select"), m, <<Ident("select"), GT1("select")>>) :
        m \in {"all", "exists", "exists_one", "map", "filter"}}
    \cup {Call(Dot(TableT, f), "exists", <<Ident("t"), GT1("t")>>) :
            f \in {"nosuch", "tags"}}
    \cup {Call(Ident("select"), "exists", <<Ident("x"), GT1("x")>>),
          Call(Dot(TableT, "nosuch"), "exists", <<Ident("x"), GT1("x")>>)}

\* replace, with every shape of the limit
ReplaceLimits ==
    {Lit(Tok("INT_LIT", n)) : n \in {"-1", "-2", "0", "1", "2", "0x1"}}
    \cup {AgeI, Uint2, Float15, StrA, Add("addition_sub", AgeI, Int1)}
ReplaceExprs ==
    {Call(NameI, "replace", <<StrA, Str("b")>>), Call(NameI, "replace", <<StrA>>),
     Call(NameI, "replace", <<StrA, Str("b"), Int1, Int1>>)}
    \cup {Call(NameI, "replace", <<StrA, Str("b"), l>>) : l \in ReplaceLimits}

\* identifiers and field names on which the dialects' rules differ: a name of
\* 64 characters, and words reserved by some dialects only
Name64 == "a234567890123456789012345678901234567890123456789012345678901234"
DialectNames == {"age", "check", "interval", "isnull", "user", "abort", "select", Name64}
NameExprs ==
    {Rel("relation_eq", Ident(n), Int1) : n \in DialectNames}
    \cup {Rel("relation_eq", Dot(TableT, n), Int1) : n \in DialectNames}

Calls ==
    {DefaultCall(en, e, d) : en \in Conversions, e \in MethodExprs, d \in Dialects}
    \cup {DefaultCall(en, e, "postgresql") :
            en \in Conversions, e \in NullBoolExprs \cup OperatorExprs}
    \cup {DefaultCall(en, e, "duckdb") : en \in Conversions, e \in NestedExprs}
    \cup {DefaultCall("analyze", e, d) :
            e \in {Rel("relation_eq", NameI, StrA), Ident("select"),
                   Nested(Uniform("exists", 1), Distinct(1), 1),
                   Rel("relation_gt", AgeI, Ident("select"))},
            d \in Dialects}
    \cup {CallOf(en, e, "postgresql", md, DEFAULT_MAX_SQL_OUTPUT_LENGTH, FALSE) :
            en \in Conversions, e \in LimitExprs, md \in 0..MaxDepthTried}
    \cup {CallOf(en, e, "postgresql", DEFAULT_MAX_RECURSION_DEPTH, ml, FALSE) :
            en \in Conversions, e \in LimitExprs, ml \in 0..MaxLengthTried}
    \cup {CallOf("convert", NameI, "postgresql", DEFAULT_MAX_RECURSION_DEPTH,
                 DEFAULT_MAX_SQL_OUTPUT_LENGTH, TRUE)}
    \cup {SchemaCall(en, e, "postgresql", sch, v) :
            en \in Entries, e \in FieldExprs, sch \in {NoSchemas, SchemaT},
            v \in BOOLEAN}
    \cup {DefaultCall(en, e, d) :
            en \in Conversions, e \in ByteExprs, d \in {"postgresql", "bigquery"}}
    \cup {DefaultCall(en, e, d) : en \in Conversions, e \in IndexExprs, d \in Dialects}
    \cup {DefaultCall(en, e, d) :
            en \in Conversions, e \in MatchExprs \cup SplitJoinExprs \cup PatternArgExprs,
            d \in Dialects}
    \cup {DefaultCall(en, e, d) :
            en \in Conversions, e \in TemporalExprs \cup ConcatExprs, d \in Dialects}
    \cup {DefaultCall("analyze", e, d) :
            e \in PatternExprs, d \in {"postgresql", "mysql", "duckdb"}}
    \cup {SchemaCall("analyze", e, "postgresql", SchemaT, FALSE) : e \in SchemaPatternExprs}
    \cup {DefaultCall("convert", e, d) : e \in NameExprs, d \in Dialects}
    \cup {DefaultCall(en, e, d) :
            en \in Conversions, e \in ReplaceExprs, d \in {"postgresql", "sqlite"}}
    \cup {SchemaCall("convert", e, d, SchemaT, v) :
            e \in JsonExprs, d \in Dialects, v \in BOOLEAN}
    \cup {SchemaCall(en, e, d, SchemaT, FALSE) :
            en \in Conversions, e \in JsonCompareExprs, d \in Dialects}
    \cup {DefaultCall(en, e, "duckdb") : en \in Conversions, e \in SiblingExprs}
    \cup {SchemaCall("convert", e, "duckdb", SchemaT, v) :
            e \in SourceExprs, v \in BOOLEAN}

(***************************************************************************)
(* The state machine                                                       *)
(***************************************************************************)
VARIABLES
    call,      \* the entry point called and its arguments
    pc,        \* "start", "walk" (converter.visit is running), "done"
    cv,        \* the Converter
    stack,     \* the handlers running, the root's first
    exc,       \* the exception in flight, or None
    outcome    \* what the caller gets

vars == <<call, pc, cv, stack, exc, outcome>>

M == [cv |-> cv, stack |-> stack, exc |-> exc]

Set(m) ==
    /\ cv' = m.cv
    /\ stack' = m.stack
    /\ exc' = m.exc
    /\ UNCHANGED <<call, pc, outcome>>

Pending == [status |-> "pending"]

Init ==
    /\ call \in Calls
    /\ pc = "start"
    /\ cv = None
    /\ stack = <<>>
    /\ exc = None
    /\ outcome = Pending

\* Construct with a constructor that accepts validate_schema without schemas
Construct_unchecked ==
    /\ pc = "start"
    /\ LET c == NewConverter(call.dialect, call.schemas, call.max_depth,
                             call.max_output_length,
                             call.entry = "convert_parameterized",
                             call.validate_schema)
           m == StartWalk(c, call.tree)
       IN cv' = m.cv /\ stack' = m.stack /\ exc' = m.exc
    /\ pc' = "walk"
    /\ UNCHANGED <<call, outcome>>

\* Converter(dialect, **kwargs), then converter.visit(tree) enters the root
Construct ==
    /\ pc = "start"
    /\ LET c == NewConverter(call.dialect, call.schemas, call.max_depth,
                             call.max_output_length,
                             call.entry = "convert_parameterized",
                             call.validate_schema)
       IN IF c.validate_schema /\ DOMAIN c.schemas = {}
          THEN /\ cv' = c
               /\ stack' = <<>>
               /\ exc' = ConversionError("InvalidSchemaError",
                            ERR_MSG_SCHEMA_VALIDATION_FAILED,
                            <<Txt("validate_schema=True requires at least one schema to be provided")>>)
          ELSE LET m == StartWalk(c, call.tree)
               IN cv' = m.cv /\ stack' = m.stack /\ exc' = m.exc
    /\ pc' = "walk"
    /\ UNCHANGED <<call, outcome>>

Write == pc = "walk" /\ Kind(M) = "write" /\ Set(DoWrite(M))
AddParam == pc = "walk" /\ Kind(M) = "param" /\ Set(DoParam(M))
VisitChild == pc = "walk" /\ Kind(M) = "visit" /\ Set(DoVisit(M))
Raise == pc = "walk" /\ Kind(M) = "raise" /\ Set(DoRaise(M))
BindVar == pc = "walk" /\ Kind(M) = "bind" /\ Set(DoBind(M))
EnterComprehension == pc = "walk" /\ Kind(M) = "inc_comp" /\ Set(DoIncComp(M))
Return == pc = "walk" /\ Kind(M) = "return" /\ Set(DoReturn(M))
Unwind == pc = "walk" /\ Kind(M) = "unwind" /\ Set(DoUnwind(M))

\* convert: return converter.result
ConvertReturns ==
    /\ pc = "walk" /\ Kind(M) = "end" /\ exc = None
    /\ call.entry = "convert"
    /\ outcome' = [status |-> "returned", sql |-> result(cv.w)]
    /\ pc' = "done"
    /\ UNCHANGED <<call, cv, stack, exc>>

\* convert_parameterized: return Result(sql, parameters)
ConvertParameterizedReturns ==
    /\ pc = "walk" /\ Kind(M) = "end" /\ exc = None
    /\ call.entry = "convert_parameterized"
    /\ outcome' = [status |-> "returned", sql |-> result(cv.w),
                   parameters |-> cv.parameters]
    /\ pc' = "done"
    /\ UNCHANGED <<call, cv, stack, exc>>

\* analyze: pass 2 on a fresh parse, then return AnalysisResult
AnalyzeReturns ==
    /\ pc = "walk" /\ Kind(M) = "end" /\ exc = None
    /\ call.entry = "analyze"
    /\ outcome' = [status |-> "returned", sql |-> result(cv.w),
                   recommendations |->
                       analyze_patterns(call.tree, call.dialect, call.schemas)]
    /\ pc' = "done"
    /\ UNCHANGED <<call, cv, stack, exc>>

\* the exception leaves the entry point
Propagate ==
    /\ pc = "walk" /\ Kind(M) = "end" /\ exc # None
    /\ outcome' = [status |-> "raised", error |-> exc]
    /\ pc' = "done"
    /\ UNCHANGED <<call, cv, stack, exc>>

Next ==
    \/ Construct
    \/ Write
    \/ AddParam
    \/ VisitChild
    \/ Raise
    \/ BindVar
    \/ EnterComprehension
    \/ Return
    \/ Unwind
    \/ ConvertReturns
    \/ ConvertParameterizedReturns
    \/ AnalyzeReturns
    \/ Propagate

Spec == Init /\ [][Next]_vars


(***************************************************************************)
(* Concurrent calls.  Every call constructs its own Converter; the Dialect *)
(* instance is shared, has no attributes and is only read.  In this        *)
(* specification each variable holds one component per call.               *)
(***************************************************************************)
\* calls running at once
MaxCalls == 2

\* the calls made, all with the one dialect instance d: two with a
\* parameter, an analysis, and a macro whose body fails while its variable
\* is bound
ConcurrentCalls(d) ==
    <<DefaultCall("convert_parameterized", Int1, d),
      DefaultCall("convert_parameterized", StrA, d),
      DefaultCall("analyze", AgeI, d),
      DefaultCall("convert", Call(TagsI, "exists", <<Ident("x"), Ident("select")>>), d)>>

\* the dialect instances shared
SharedDialects == {"postgresql"}

Session(t) == [cv |-> cv[t], stack |-> stack[t], exc |-> exc[t]]

\* Converter(dialect, **kwargs), then converter.visit(tree) enters the root
Constructed(c) ==
    LET conv == NewConverter(c.dialect, c.schemas, c.max_depth, c.max_output_length,
                             c.entry = "convert_parameterized", c.validate_schema)
    IN IF conv.validate_schema /\ DOMAIN conv.schemas = {}
       THEN [cv |-> conv, stack |-> <<>>,
             exc |-> ConversionError("InvalidSchemaError",
                        ERR_MSG_SCHEMA_VALIDATION_FAILED,
                        <<Txt("validate_schema=True requires at least one schema to be provided")>>)]
       ELSE StartWalk(conv, c.tree)

\* what the entry point hands to its caller when the walk is over
OutcomeOf(c, m) ==
    IF m.exc # None THEN [status |-> "raised", error |-> m.exc]
    ELSE CASE c.entry = "convert" -> [status |-> "returned", sql |-> result(m.cv.w)]
           [] c.entry = "convert_parameterized" ->
                [status |-> "returned", sql |-> result(m.cv.w),
                 parameters |-> m.cv.parameters]
           [] c.entry = "analyze" ->
                [status |-> "returned", sql |-> result(m.cv.w),
                 recommendations |-> analyze_patterns(c.tree, c.dialect, c.schemas)]

\* a step of call t with the parameter list and its counter kept in one
\* place for all the converters
OwnStep_shared_parameters(sessions, t) ==
    LET m == StepM(sessions[t]) IN
    [u \in DOMAIN sessions |->
        IF u = t THEN m
        ELSE IF sessions[u].cv = None THEN sessions[u]
        ELSE [sessions[u] EXCEPT !.cv.parameters = m.cv.parameters,
                                 !.cv.param_count = m.cv.param_count]]

\* a step of call t: it reads and writes the attributes of its own Converter
OwnStep(sessions, t) == [sessions EXCEPT ![t] = StepM(sessions[t])]

SetSessions(sessions) ==
    /\ cv' = [t \in DOMAIN sessions |-> sessions[t].cv]
    /\ stack' = [t \in DOMAIN sessions |-> sessions[t].stack]
    /\ exc' = [t \in DOMAIN sessions |-> sessions[t].exc]

ConcurrentInit ==
    /\ \E d \in SharedDialects :
       \E f \in [1..MaxCalls -> DOMAIN ConcurrentCalls(d)] :
          \* which call runs under which number makes no difference
          /\ \A i, j \in 1..MaxCalls : i < j => f[i] < f[j]
          /\ call = [t \in 1..MaxCalls |-> ConcurrentCalls(d)[f[t]]]
    /\ pc = [t \in 1..MaxCalls |-> "start"]
    /\ cv = [t \in 1..MaxCalls |-> None]
    /\ stack = [t \in 1..MaxCalls |-> <<>>]
    /\ exc = [t \in 1..MaxCalls |-> None]
    /\ outcome = [t \in 1..MaxCalls |-> Pending]

\* call t constructs its Converter
CallConstructs(t) ==
    /\ pc[t] = "start"
    /\ SetSessions([[u \in 1..MaxCalls |-> Session(u)] EXCEPT ![t] = Constructed(call[t])])
    /\ pc' = [pc EXCEPT ![t] = "walk"]
    /\ UNCHANGED <<call, outcome>>

\* call t takes one step of its walk
CallSteps(t) ==
    /\ pc[t] = "walk" /\ Kind(Session(t)) # "end"
    /\ SetSessions(OwnStep([u \in 1..MaxCalls |-> Session(u)], t))
    /\ UNCHANGED <<call, pc, outcome>>

\* call t returns or raises
CallEnds(t) ==
    /\ pc[t] = "walk" /\ Kind(Session(t)) = "end"
    /\ outcome' = [outcome EXCEPT ![t] = OutcomeOf(call[t], Session(t))]
    /\ pc' = [pc EXCEPT ![t] = "done"]
    /\ UNCHANGED <<call, cv, stack, exc>>

ConcurrentNext ==
    \E t \in 1..MaxCalls :
        \/ CallConstructs(t)
        \/ CallSteps(t)
        \/ CallEnds(t)

ConcurrentSpec == ConcurrentInit /\ [][ConcurrentNext]_vars


(***************************************************************************)
(* Properties                                                              *)
(***************************************************************************)
Range(f) == {f[i] : i \in DOMAIN f}
Max(S) == CHOOSE x \in S : \A y \in S : y <= x

Returned == outcome.status = "returned"
RaisedWith(type) == outcome.status = "raised" /\ outcome.error.type = type
InFlight(type) == exc # None /\ exc.type = type

\* the Converter as the entry point constructs it for the call
FreshConverter(parameterize) ==
    NewConverter(call.dialect, call.schemas, call.max_depth, call.max_output_length,
                 parameterize, call.validate_schema)

RECURSIVE VisitDepth(_, _)
\* the deepest chain of nested child visits the handlers make below tree
VisitDepth(c, tree) ==
    LET visited == {op.t : op \in {o \in Range(Handler(c, tree)) : o.op = "visit"}}
    IN IF visited = {} THEN 0
       ELSE 1 + Max({VisitDepth(c, t) : t \in visited})

DeepestChain == VisitDepth(FreshConverter(FALSE), call.tree)

C1_Step ==
    /\ (pc' = "walk" /\ stack' # <<>>) => cv'.depth = Len(stack') - 1
    /\ (pc = "walk" /\ Len(stack') = Len(stack) + 1) =>
          IF Len(stack) > call.max_depth
          THEN /\ exc' # None /\ exc'.type = "MaxDepthExceededError"
               /\ cv'.w = cv.w
               /\ stack'[Len(stack')].ops = <<>>
          ELSE ~(exc' # None /\ exc'.type = "MaxDepthExceededError")
    /\ (pc = "walk" /\ InFlight("MaxDepthExceededError")) => cv'.w = cv.w
    /\ (pc' = "done" /\ call.max_depth <= MaxDepthTried) =>
          /\ (outcome'.status = "returned" => DeepestChain <= call.max_depth)
          /\ (DeepestChain <= call.max_depth
                => ~(outcome'.status = "raised"
                      /\ outcome'.error.type = "MaxDepthExceededError"))

\* C1: the root is handled at depth 0 and every nested child visit is one
\* deeper; a child visit at depth max_depth + 1 raises MaxDepthExceededError
\* with nothing written by the child, a visit at depth <= max_depth is never
\* rejected for depth, and a conversion whose deepest chain of visits is at
\* most max_depth does not end in MaxDepthExceededError.
C1_DepthBoundary == [][C1_Step]_vars

\* a conversion whose deepest chain is exactly max_depth has returned
C1_Witness ==
    Returned /\ call.max_depth <= MaxDepthTried /\ DeepestChain = call.max_depth

IsMacroCall(tree) ==
    /\ IsTree(tree)
    /\ tree.data = "member_dot_arg"
    /\ tree.children[2].text \in {"all", "exists", "exists_one", "map", "filter"}

\* the macros that enclose the handler on top of the stack
EnclosingMacros == {i \in 1..(Len(stack) - 1) : IsMacroCall(stack[i].tree)}

\* the expressions whose macros nest exactly n deep, each level with a loop
\* variable of its own
NestedExactly(n) ==
    {At(1, Nested(Uniform(k, n), Distinct(n), 1)) : k \in ComprehensionMacros}
    \cup {At(1, Nested(InTurn(n), Distinct(n), 1))}

\* C2: a macro entered with fewer than 3 enclosing macros open is entered,
\* one entered with 3 open raises MaxComprehensionDepthExceededError,
\* whatever the kinds; expressions whose macros nest 3 deep or less convert,
\* those whose macros nest deeper end in that error.
C2_ComprehensionDepth ==
    /\ (pc = "walk" /\ stack # <<>> /\ exc = None /\ IsMacroCall(Top(M).tree)
            /\ Top(M).pc = 1) =>
          IF Cardinality(EnclosingMacros) >= 3
          THEN /\ CurOp(M).op = "raise"
               /\ CurOp(M).e.type = "MaxComprehensionDepthExceededError"
          ELSE CurOp(M).op = "inc_comp"
    /\ (pc = "walk" /\ stack # <<>>) => Cardinality(EnclosingMacros) <= 3
    /\ pc = "done" =>
          \A n \in 1..MaxNesting :
             call.tree \in NestedExactly(n) =>
                IF n <= 3 THEN Returned
                ELSE RaisedWith("MaxComprehensionDepthExceededError")

\* the walk is inside the third of three nested macros of different kinds
C2_Witness ==
    /\ pc = "walk" /\ cv # None
    /\ cv.comprehension_depth = 3
    /\ Cardinality(EnclosingMacros) = 3
    /\ call.tree = At(1, Nested(InTurn(3), Distinct(3), 1))

\* C3: the SQL text a conversion returns is at most max_output_length long.
C3_OutputBounded ==
    (Returned /\ call.entry \in Conversions) => Len(outcome.sql) <= call.max_output_length

\* C4: the bound loop variables are exactly those of the macros now open, so
\* that leaving a macro restores the set bound when it was entered.
C4_ScopeRestored ==
    (pc = "walk" /\ cv # None) =>
        cv.comprehension_vars = {stack[i].var : i \in DOMAIN stack} \ {""}

Placeholders(w) == SelectSeq(w, LAMBDA ch : ch.k = "ph")

IsPrefix(s, t) == Len(s) <= Len(t) /\ SubSeq(t, 1, Len(s)) = s

C5_Step ==
    pc' # "start" =>
      /\ IF call.entry = "convert_parameterized"
         THEN LET ph == Placeholders(cv'.w) IN
              /\ Len(ph) = Len(cv'.parameters)
              /\ \A k \in DOMAIN ph :
                    /\ ph[k].i = k
                    /\ ph[k].s = write_param_placeholder(call.dialect, k)
         ELSE cv'.parameters = <<>> /\ Placeholders(cv'.w) = <<>>
      /\ pc # "start" =>
            /\ IsPrefix(cv.parameters, cv'.parameters)
            /\ Len(cv'.parameters) <= Len(cv.parameters) + 1
            /\ Len(cv'.parameters) = Len(cv.parameters) + 1 =>
                  /\ cv'.parameters[Len(cv'.parameters)] = CurOp(M).v
                  /\ cv'.w[Len(cv'.w)].i = Len(cv'.parameters)
                  /\ Len(cv'.w) = Len(cv.w) + 1

\* C5: in parameterized mode the parameter list only grows by appends, the
\* placeholders written are as many as the parameters, and the k-th
\* placeholder carries index k and stands for the k-th parameter; otherwise
\* the parameter list stays empty and no placeholder is written.
C5_Parameters == [][C5_Step]_vars

\* two parameters and their placeholders are in the buffer
C5_Witness ==
    /\ pc = "walk"
    /\ call.entry = "convert_parameterized"
    /\ Len(cv.parameters) >= 2
    /\ cv.parameters[1] # cv.parameters[2]


\* how many nodes a tree scan may take: 2^ScanLog
ScanLog == 10

ParamTokenTypes ==
    {"INT_LIT", "UINT_LIT", "FLOAT_LIT", "STRING_LIT", "MLSTRING_LIT", "BYTES_LIT"}

\* the value an int, uint, float, string or bytes literal stands for
\* (an integer beyond 2^31 - 1 is kept as its decimal text)
LiteralValue(token) ==
    CASE token.type = "INT_LIT" ->
            [int |-> IF /\ IsDecimalText(token.text)
                        /\ DecGreater(DecMagnitude(token.text), "2147483647")
                     THEN token.text ELSE ParseInt(token.text)]
      [] token.type = "UINT_LIT" -> [int |-> ParseInt(RStripU(token.text))]
      [] token.type = "FLOAT_LIT" -> [float |-> FloatValue(token.text)]
      [] token.type \in {"STRING_LIT", "MLSTRING_LIT"} -> [str |-> Join(StringValue(token))]
      [] token.type = "BYTES_LIT" -> [bytes |-> Join(_strip_quotes(Tail(token.text)))]

\* one node of a left-to-right scan of the source: a literal token adds its
\* value, a call, a macro, an index access or `in` is noted
ScanStep(s) ==
    LET n == Head(s.todo) IN
    IF IsToken(n)
    THEN [s EXCEPT !.todo = Tail(@),
                   !.leaves = IF n.type \in ParamTokenTypes
                              THEN Append(@, LiteralValue(n)) ELSE @]
    ELSE [s EXCEPT !.todo = n.children \o Tail(@),
                   !.calls = @ \/ n.data \in {"member_dot_arg", "ident_arg", "relation_in",
                                               "member_index"}]

RECURSIVE Scan(_, _)
Scan(s, k) ==
    IF s.todo = <<>> THEN s
    ELSE IF k = 0 THEN ScanStep(s)
    ELSE Scan(Scan(s, k - 1), k - 1)

\* the literal leaves of the expression of the call, in source order
LiteralLeaves == Scan([todo |-> <<call.tree>>, leaves |-> <<>>, calls |-> FALSE], ScanLog)

\* convert on the expression, dialect and limits of the call
PlainRun == RunM(StartWalk(FreshConverter(FALSE), call.tree))

Literals(w) == SelectSeq(w, LAMBDA ch : ch.k = "lit")

\* the buffers of the two conversions differ in that a placeholder stands
\* where the plain one has the text of a literal
SameButPlaceholders(pw, w) ==
    /\ Len(w) = Len(pw)
    /\ \A i \in DOMAIN w :
          IF pw[i].k = "lit" THEN w[i].k = "ph" ELSE w[i] = pw[i]

Renders(d, p, text) ==
    CASE "int" \in DOMAIN p -> text = ToString(p.int)
      [] "float" \in DOMAIN p -> FloatValue(text) = p.float
      [] "str" \in DOMAIN p -> text = write_string_literal(d, Chars(p.str))
      [] "bytes" \in DOMAIN p -> text = write_bytes_literal(d, Chars(p.bytes))
      [] OTHER -> FALSE

IsNullOrBool(token) == token # None /\ token.type \in {"NULL_LIT", "BOOL_LIT"}

\* IS [NOT] NULL / TRUE / FALSE for the operator and the literal
IsPhrase(op_name, token) ==
    (IF op_name = "relation_eq" THEN " IS " ELSE " IS NOT ")
       \o (IF token.type = "NULL_LIT" THEN "NULL"
           ELSE IF Lower(token.text) = "true" THEN "TRUE" ELSE "FALSE")

\* for a relation: each way of taking one operand as the null or boolean
\* literal, with the other operand and the phrase that follows it
NullBoolSides(rel) ==
    LET op_node == rel.children[1]
        lhs == op_node.children[1]
        rhs == rel.children[2]
        ll == _get_literal_token(lhs)
        rl == _get_literal_token(rhs)
    IN {[other |-> lhs, word |-> IsPhrase(op_node.data, rl)] : x \in {1} \cap {IF IsNullOrBool(rl) THEN 1 ELSE 0}}
       \cup {[other |-> rhs, word |-> IsPhrase(op_node.data, ll)] : x \in {1} \cap {IF IsNullOrBool(ll) THEN 1 ELSE 0}}

IsNullBoolRelation(tree) ==
    /\ IsTree(tree)
    /\ tree.data = "relation"
    /\ Len(tree.children) = 2
    /\ IsTree(tree.children[1])
    /\ tree.children[1].data \in {"relation_eq", "relation_ne"}
    /\ NullBoolSides(tree) # {}

\* the relation a call converts, when its expression is one relation
RootIsRelation ==
    /\ Len(call.tree.children) = 1
    /\ Len(call.tree.children[1].children) = 1
    /\ Len(call.tree.children[1].children[1].children) = 1
RootRelation == call.tree.children[1].children[1].children[1]

\* the SQL of tree alone, in the mode and dialect of the call
SqlOf(tree) ==
    result(RunM(StartWalk(FreshConverter(call.entry = "convert_parameterized"), tree)).cv.w)

\* C7: the handler of an == or != relation with a null or boolean literal
\* operand visits the other operand once and then writes IS [NOT] NULL,
\* TRUE or FALSE, and nothing else; the SQL of such a relation is the SQL of
\* the other operand followed by that phrase.
C7_IsComparison ==
    /\ (pc = "walk" /\ stack # <<>> /\ exc = None /\ Top(M).pc = 1
            /\ IsNullBoolRelation(Top(M).tree)) =>
          \E x \in NullBoolSides(Top(M).tree) :
              Top(M).ops = <<V(x.other), W(x.word)>>
    /\ (Returned /\ RootIsRelation /\ IsNullBoolRelation(RootRelation)) =>
          \E x \in NullBoolSides(RootRelation) :
              outcome.sql = SqlOf(x.other) \o x.word

\* `false != name` has been converted
C7_Witness ==
    /\ Returned
    /\ call.tree = At(1, Rel("relation_ne", FalseL, NameI))
    /\ outcome.sql = "name IS NOT FALSE"

IsNullBoolLiteral(tree) ==
    /\ IsTree(tree)
    /\ tree.data = "literal"
    /\ IsToken(tree.children[1])
    /\ tree.children[1].type \in {"NULL_LIT", "BOOL_LIT"}

C8_Step ==
    (pc = "walk" /\ pc' = "walk" /\ call.entry = "convert_parameterized") =>
      /\ (\/ cv'.parameters # cv.parameters
          \/ Len(Placeholders(cv'.w)) # Len(Placeholders(cv.w))) =>
            /\ Top(M).tree.data = "literal"
            /\ ~IsNullBoolLiteral(Top(M).tree)
      /\ (stack # <<>> /\ exc = None /\ Top(M).pc = 1 /\ IsNullBoolLiteral(Top(M).tree)) =>
            /\ cv'.parameters = cv.parameters
            /\ Len(cv'.w) = Len(cv.w) + 1
            /\ cv'.w[Len(cv'.w)] \in
                  {[s |-> word, k |-> "sql", i |-> 0] : word \in {"NULL", "TRUE", "FALSE"}}

\* C8: in parameterized mode only the handler of an int, uint, float,
\* string or bytes literal appends a parameter or writes a placeholder; the
\* handler of a null or boolean literal writes NULL, TRUE or FALSE and
\* leaves the parameter list as it is.
C8_NullBoolInline == [][C8_Step]_vars

\* in parameterized mode, `false` as the else branch of a ternary has been
\* written after the then branch was parameterized
C8_Witness ==
    /\ pc = "walk"
    /\ call.entry = "convert_parameterized"
    /\ stack # <<>>
    /\ Top(M).tree = FalseL
    /\ Top(M).pc = 2
    /\ Len(stack[1].tree.children) = 3
    /\ Len(cv.parameters) = 1

C9_Step ==
    /\ (pc = "walk" /\ exc # None) =>
          /\ exc' = exc
          /\ cv'.w = cv.w
          /\ cv'.parameters = cv.parameters
          /\ \/ stack # <<>> /\ stack' = Pop(stack) /\ pc' = "walk"
             \/ stack = <<>> /\ pc' = "done"
                    /\ outcome' = [status |-> "raised", error |-> exc]
    /\ (pc' = "done" /\ outcome'.status = "returned") => exc = None

\* C9: once a ConversionError is in flight it stays the same error, every
\* handler on the stack is left without visiting or writing anything, and
\* the entry point ends with that error and nothing else; convert,
\* convert_parameterized and analyze return a result only when no error
\* was raised.
C9_ErrorPropagates == [][C9_Step]_vars

\* analyze has ended in an error raised after part of the SQL was written
C9_Witness ==
    /\ outcome.status = "raised"
    /\ call.entry = "analyze"
    /\ cv.w # <<>>
    /\ DOMAIN outcome = {"status", "error"}

\* C10: the user-facing message of every ConversionError is constant text:
\* no part of it is taken from the input.
C10_SanitizedMessage ==
    (exc # None /\ "user_message" \in DOMAIN exc) =>
        \A i \in DOMAIN exc.user_message : "txt" \in DOMAIN exc.user_message[i]

\* the loop variables of the macros now open
OpenLoopVars == {stack[i].var : i \in DOMAIN stack} \ {""}

RECURSIVE FirstSegment(_)
\* the field that follows the root identifier in a chain of accesses
FirstSegment(tree) ==
    IF IsToken(tree) \/ tree.data = "ident" \/ tree.children = <<>> THEN ""
    ELSE IF /\ tree.data = "member_dot"
            /\ IsTree(SkipMemberPrimary(tree.children[1]))
            /\ SkipMemberPrimary(tree.children[1]).data = "ident"
    THEN tree.children[2].text
    ELSE FirstSegment(tree.children[1])

RaisesNow(type) == CurOp(M).op = "raise" /\ CurOp(M).e.type = type

\* C11: with validate_schema a field access rooted at a name that is no open
\* loop variable raises InvalidSchemaError exactly when the root has no
\* schema or the first field after the root is not in it; accesses rooted at
\* a loop variable, later segments and bare identifiers are never checked,
\* and without validate_schema InvalidSchemaError is never raised.
C11_SchemaChecked ==
    /\ (pc = "walk" /\ stack # <<>> /\ exc = None /\ IsTree(Top(M).tree)
            /\ Top(M).tree.data = "member_dot" /\ Top(M).pc = 1) =>
          LET root == _get_root_ident(Top(M).tree.children[1])
              first == FirstSegment(Top(M).tree)
          IN IF call.validate_schema /\ root # "" /\ root \notin OpenLoopVars
             THEN RaisesNow("InvalidSchemaError")
                     <=> \/ root \notin DOMAIN call.schemas
                         \/ first \notin DOMAIN call.schemas[root]
             ELSE ~RaisesNow("InvalidSchemaError")
    /\ (pc = "walk" /\ stack # <<>> /\ exc = None /\ IsTree(Top(M).tree)
            /\ Top(M).tree.data # "member_dot" /\ ~AtEnd(M)) =>
          ~RaisesNow("InvalidSchemaError")
    /\ InFlight("InvalidSchemaError") => call.validate_schema

\* C12: a call with validate_schema and no schemas ends in
\* InvalidSchemaError raised by the constructor: no node is visited, nothing
\* is written, no parameter is added, and the caller gets the error only.
C12_NoSchemasRejected ==
    (call.validate_schema /\ DOMAIN call.schemas = {} /\ pc # "start") =>
        /\ stack = <<>>
        /\ cv.w = <<>> /\ cv.parameters = <<>> /\ cv.depth = 0
        /\ InFlight("InvalidSchemaError")
        /\ pc = "done" =>
              /\ RaisedWith("InvalidSchemaError")
              /\ DOMAIN outcome = {"status", "error"}

\* analyze of a field access was called with validate_schema and no schemas
\* and has ended in the error
C12_Witness ==
    /\ pc = "done"
    /\ call.entry = "analyze"
    /\ call.validate_schema /\ DOMAIN call.schemas = {}
    /\ call.tree = At(1, Rel("relation_eq", Dot(TableT, "name"), StrA))
    /\ RaisedWith("InvalidSchemaError")

\* the bytes of the literal the handler on top is about to convert
TopBytes == _strip_quotes(Tail(Top(M).tree.children[1].text))

AtBytesLiteral ==
    /\ pc = "walk" /\ stack # <<>> /\ exc = None
    /\ IsTree(Top(M).tree) /\ Top(M).tree.data = "literal"
    /\ IsToken(Top(M).tree.children[1])
    /\ Top(M).tree.children[1].type = "BYTES_LIT"
    /\ Top(M).pc = 1

BytesLeaves == SelectSeq(LiteralLeaves.leaves, LAMBDA v : "bytes" \in DOMAIN v)

AtIndex ==
    /\ pc = "walk" /\ stack # <<>> /\ exc = None
    /\ IsTree(Top(M).tree) /\ Top(M).tree.data = "member_index"
    /\ Top(M).pc = 1

\* C14: for obj[i] with an integer literal i the handler raises
\* InvalidArgumentsError when i < 0 and when i >= 2^31 and takes the
\* constant-index form of the dialect for every other i; an index that is
\* neither an integer nor a string literal takes the dynamic-index form.
C14_IndexBounds ==
    AtIndex =>
        LET obj == Top(M).tree.children[1]
            index_expr == Top(M).tree.children[2]
            tok == _get_literal_token(index_expr)
        IN IF tok # None /\ tok.type = "INT_LIT"
           THEN IF /\ IsDecimalText(tok.text)
                   /\ \/ DecNegative(tok.text)
                      \/ ~DecGreater(TWO_POW_31, DecMagnitude(tok.text))
                THEN RaisesNow("InvalidArgumentsError")
                ELSE IF IsDecimalText(tok.text)
                THEN Top(M).ops = write_list_index_const(cv.dialect, <<V(obj)>>,
                                                         DecMagnitude(tok.text))
                ELSE \A k \in DOMAIN Top(M).ops : Top(M).ops[k].op # "raise"
           ELSE IF tok # None /\ tok.type \in {"STRING_LIT", "MLSTRING_LIT"}
           THEN TRUE
           ELSE Top(M).ops = write_list_index(cv.dialect, <<V(obj)>>, <<V(index_expr)>>)

\* the handler on top is matches, as a method or as a function of two
\* arguments, about to start
AtMatches ==
    /\ pc = "walk" /\ stack # <<>> /\ exc = None
    /\ IsTree(Top(M).tree) /\ Top(M).pc = 1
    /\ \/ /\ Top(M).tree.data = "member_dot_arg"
          /\ Top(M).tree.children[2].text = "matches"
       \/ /\ Top(M).tree.data = "ident_arg"
          /\ Top(M).tree.children[1].text = "matches"
          /\ Len(Top(M).tree.children[2].children) = 2

\* the arguments of the matches call on top, and its pattern argument
MatchesArgs ==
    IF Top(M).tree.data = "ident_arg" THEN Top(M).tree.children[2].children
    ELSE IF Len(Top(M).tree.children) > 2 THEN Top(M).tree.children[3].children
    ELSE <<>>

PatternToken == _get_literal_token(MatchesArgs[Len(MatchesArgs)])

HasLiteralPattern ==
    /\ MatchesArgs # <<>>
    /\ Top(M).tree.data = "member_dot_arg" => Len(MatchesArgs) = 1
    /\ PatternToken # None
    /\ PatternToken.type \in {"STRING_LIT", "MLSTRING_LIT"}

\* the parentheses at i and j of p are one group
IsGroup(p, i, j) ==
    /\ i < j /\ p[i] = "(" /\ p[j] = ")"
    /\ \A m \in (i + 1)..(j - 1) :
          Count(SubSeq(p, i + 1, m), <<"(">>) >= Count(SubSeq(p, i + 1, m), <<")">>)
    /\ Count(SubSeq(p, i + 1, j - 1), <<"(">>) = Count(SubSeq(p, i + 1, j - 1), <<")">>)

\* p has a quantified group with a quantifier inside it
NestedQuantifierGroup(p) ==
    \E i \in DOMAIN p, j \in DOMAIN p :
        /\ IsGroup(p, i, j)
        /\ j + 1 <= Len(p) /\ p[j + 1] \in {"+", "*", "?"}
        /\ \E k \in (i + 1)..(j - 1) : p[k] \in {"+", "*", "?"} /\ p[k - 1] # "("

\* p has a quantified group that ends in a quantifier and has no group inside
QuantifiedGroupEndsInQuantifier(p) ==
    \E i \in DOMAIN p, j \in DOMAIN p :
        /\ IsGroup(p, i, j) /\ i + 1 < j
        /\ \A k \in (i + 1)..(j - 1) : p[k] \notin {"(", ")"}
        /\ p[j - 1] \in {"+", "*", "?"}
        /\ j + 1 <= Len(p) /\ p[j + 1] \in {"+", "*", "?"}

AtRegexSplitJoin ==
    /\ pc = "walk" /\ stack # <<>> /\ exc = None
    /\ IsTree(Top(M).tree) /\ Top(M).pc = 1
    /\ \/ /\ Top(M).tree.data = "member_dot_arg"
          /\ Top(M).tree.children[2].text \in {"matches", "split", "join"}
       \/ /\ Top(M).tree.data = "ident_arg"
          /\ Top(M).tree.children[1].text = "matches"

\* the name and the arguments of the call on top
CalledName ==
    IF Top(M).tree.data = "ident_arg" THEN Top(M).tree.children[1].text
    ELSE Top(M).tree.children[2].text

CalledArgs ==
    IF Top(M).tree.data = "ident_arg" THEN Top(M).tree.children[2].children
    ELSE IF Len(Top(M).tree.children) > 2 THEN Top(M).tree.children[3].children
    ELSE <<>>

NoRaise == \A k \in DOMAIN Top(M).ops : Top(M).ops[k].op # "raise"

\* the call on top gets as far as the dialect's regex, split or join
ReachesDialect ==
    LET args == CalledArgs
        IsStr(e) == /\ _get_literal_token(e) # None
                    /\ _get_literal_token(e).type \in {"STRING_LIT", "MLSTRING_LIT"}
        IsInt(e) == /\ _get_literal_token(e) # None
                    /\ _get_literal_token(e).type = "INT_LIT"
    IN CASE CalledName = "matches" /\ Top(M).tree.data = "member_dot_arg" ->
                Len(args) = 1 /\ IsStr(args[1])
         [] CalledName = "matches" /\ Top(M).tree.data = "ident_arg" ->
                Len(args) = 2 /\ IsStr(args[2])
         [] CalledName = "split" ->
                \/ Len(args) = 1
                \/ /\ Len(args) = 2 /\ IsInt(args[2])
                   /\ LET limit == ParseInt(_get_literal_token(args[2]).text)
                      IN limit = 0 - 1 \/ limit >= 2
         [] CalledName = "join" -> Len(args) <= 1

AtPatternCall ==
    /\ AtMatches
       \/ /\ pc = "walk" /\ stack # <<>> /\ exc = None
          /\ IsTree(Top(M).tree) /\ Top(M).pc = 1
          /\ Top(M).tree.data = "member_dot_arg"
          /\ Top(M).tree.children[2].text \in {"contains", "startsWith", "endsWith"}
    /\ IF Top(M).tree.data = "ident_arg" THEN Len(CalledArgs) = 2 ELSE Len(CalledArgs) = 1

PatternArg == CalledArgs[Len(CalledArgs)]

PatternIsStringLiteral ==
    /\ _get_literal_token(PatternArg) # None
    /\ _get_literal_token(PatternArg).type \in {"STRING_LIT", "MLSTRING_LIT"}

\* C17: contains, startsWith, endsWith and matches raise
\* InvalidArgumentsError when the pattern argument is not a literal.
C17_LiteralPatternRequired ==
    (AtPatternCall /\ _get_literal_token(PatternArg) = None) =>
        RaisesNow("InvalidArgumentsError")

\* C17, amended: startsWith, endsWith and matches raise InvalidArgumentsError
\* exactly when the pattern argument is not a string literal; contains
\* takes any expression and hands it to the dialect as the needle.
C17_StringLiteralPatternRequired ==
    AtPatternCall =>
        IF CalledName = "contains"
        THEN ~PatternIsStringLiteral =>
                /\ NoRaise
                /\ Top(M).ops = write_contains(cv.dialect, <<V(Top(M).tree.children[1])>>,
                                               <<V(PatternArg)>>)
        ELSE RaisesNow("InvalidArgumentsError") <=> ~PatternIsStringLiteral

\* name.endsWith(age) is about to raise on BigQuery
C17_Witness ==
    /\ AtPatternCall /\ cv.dialect = "bigquery"
    /\ CalledName = "endsWith"
    /\ _get_literal_token(PatternArg) = None
    /\ RaisesNow("InvalidArgumentsError")

\* the handler on top is + or - with two operands, about to start
AtAddition ==
    /\ pc = "walk" /\ stack # <<>> /\ exc = None
    /\ IsTree(Top(M).tree) /\ Top(M).pc = 1
    /\ Top(M).tree.data = "addition" /\ Len(Top(M).tree.children) = 2

AddLhs == Top(M).tree.children[1].children[1]
AddRhs == Top(M).tree.children[2]
AddOp == IF Top(M).tree.children[1].data = "addition_add" THEN "+" ELSE "-"

\* e is a duration or interval call, in parentheses or not
DurationOperand(e) ==
    /\ _unwrap_to_data(e, "ident_arg") # None
    /\ _unwrap_to_data(e, "ident_arg").children[1].text \in {"duration", "interval"}

\* e is temporal and is no duration
TimestampOperand(e) == ~DurationOperand(e) /\ _tree_has_temporal(e)

RECURSIVE ContainsStringLiteral(_)
ContainsStringLiteral(e) ==
    IF IsToken(e) THEN e.type = "STRING_LIT"
    ELSE \E i \in DOMAIN e.children : ContainsStringLiteral(e.children[i])

\* a list literal occurs in e, at any depth
RECURSIVE ContainsListLiteral(_)
ContainsListLiteral(e) ==
    /\ IsTree(e)
    /\ \/ e.data = "list_lit"
       \/ \E i \in DOMAIN e.children : ContainsListLiteral(e.children[i])

\* e is a list literal, in parentheses or not
RECURSIVE IsListOperand(_)
IsListOperand(e) ==
    /\ IsTree(e)
    /\ \/ e.data = "list_lit"
       \/ Len(e.children) = 1 /\ IsListOperand(e.children[1])

\* the handler on top is a + outside any temporal context
AtPlainPlus ==
    /\ AtAddition /\ AddOp = "+"
    /\ ~_tree_has_temporal(AddLhs) /\ ~_tree_has_temporal(AddRhs)

WritesConcat == Top(M).ops = write_string_concat(cv.dialect, <<V(AddLhs)>>, <<V(AddRhs)>>)
WritesPlus == Top(M).ops = <<V(AddLhs), W(" + "), V(AddRhs)>>

\* C19: a + outside temporal arithmetic is written as a concatenation
\* exactly when a string literal or a list literal occurs anywhere in either
\* operand, and as numeric ' + ' otherwise.
C19_ConcatForLiteralAnywhere ==
    AtPlainPlus =>
        IF \E e \in {AddLhs, AddRhs} : ContainsStringLiteral(e) \/ ContainsListLiteral(e)
        THEN WritesConcat ELSE WritesPlus

\* C19, amended: the concatenation is written exactly when a string literal
\* occurs anywhere in either operand or one operand is itself a list
\* literal, in parentheses or not; a list literal deeper in an operand does
\* not count.
C19_ConcatForStringAnywhereOrListOperand ==
    AtPlainPlus =>
        IF \E e \in {AddLhs, AddRhs} : ContainsStringLiteral(e) \/ IsListOperand(e)
        THEN WritesConcat ELSE WritesPlus

\* age + (age + 'a') is about to be written as CONCAT on MySQL: the string
\* literal is two levels below the operand
C19_Witness ==
    /\ AtPlainPlus /\ cv.dialect = "mysql"
    /\ ~ContainsStringLiteral(AddLhs)
    /\ _unwrap_to_data(AddRhs, "paren_expr") # None
    /\ ContainsStringLiteral(AddRhs)
    /\ Top(M).ops = <<W("CONCAT("), V(AddLhs), W(", "), V(AddRhs), W(")")>>

\* every pattern the analyzer's walk detects, in the order of detection
RECURSIVE Detected(_, _)
Detected(schemas, tree) ==
    IF IsToken(tree) THEN <<>>
    ELSE LET RECURSIVE kids(_)
             kids(i) == IF i > Len(tree.children) THEN <<>>
                        ELSE Detected(schemas, tree.children[i]) \o kids(i + 1)
         IN SelectSeq(NodePatterns(schemas, tree), LAMBDA p : p.column # "") \o kids(1)

Reverse(seq) == [i \in DOMAIN seq |-> seq[Len(seq) + 1 - i]]

\* analyze has returned
Analyzed == pc = "done" /\ call.entry = "analyze" /\ Returned

DetectedPatterns == Detected(call.schemas, call.tree)
RetainedPatterns == IndexAnalyzer_visit(call.schemas, call.tree, <<>>)

\* the priority retained for a column among the patterns kept
RetainedPriority(kept, column) ==
    {_pattern_priority(kept[j].pattern) : j \in {k \in DOMAIN kept : kept[k].column = column}}

\* C20: after the walk every column detected has exactly one retained
\* pattern; its priority is the greatest detected for the column, whatever
\* the order of detection, and it is the first detected of that priority.
C20_OnePatternPerColumn ==
    Analyzed =>
        LET det == DetectedPatterns
            kept == RetainedPatterns
        IN /\ \A i \in DOMAIN det :
                  Cardinality({j \in DOMAIN kept : kept[j].column = det[i].column}) = 1
           /\ \A j \in DOMAIN kept :
                  \E i \in DOMAIN det :
                      /\ det[i] = kept[j]
                      /\ \A k \in DOMAIN det :
                            det[k].column = kept[j].column =>
                               /\ _pattern_priority(det[k].pattern)
                                     <= _pattern_priority(kept[j].pattern)
                               /\ (_pattern_priority(det[k].pattern)
                                     = _pattern_priority(kept[j].pattern)) => i <= k
           /\ \A i \in DOMAIN det :
                  RetainedPriority(AddAll(<<>>, Reverse(det)), det[i].column)
                      = RetainedPriority(kept, det[i].column)

\* analyze has returned for an expression where one column was detected with
\* a lower priority first and then twice, differently, with its greatest one
C20_Witness ==
    /\ Analyzed
    /\ \E i, k, l \in DOMAIN DetectedPatterns :
          LET det == DetectedPatterns IN
          /\ i < k /\ k < l
          /\ det[i].column = det[k].column /\ det[k].column = det[l].column
          /\ _pattern_priority(det[i].pattern) < _pattern_priority(det[k].pattern)
          /\ _pattern_priority(det[k].pattern) = _pattern_priority(det[l].pattern)
          /\ det[k] # det[l]
          /\ \E j \in DOMAIN RetainedPatterns : RetainedPatterns[j] = det[k]

Recommendations == outcome.recommendations

\* the advice of the dialect's advisor for a pattern of the kind on column
AdviceFor(kind, column) ==
    recommend_index(call.dialect, IndexPattern(column, kind, "")).index_type

\* the kinds of pattern detected for a column
KindsDetected(column) ==
    {DetectedPatterns[i].pattern :
        i \in {k \in DOMAIN DetectedPatterns : DetectedPatterns[k].column = column}}

AloneOutcome(c) == OutcomeOf(c, RunM(Constructed(c)))

AtNameCheck ==
    /\ pc = "walk" /\ stack # <<>> /\ exc = None
    /\ IsTree(Top(M).tree) /\ Top(M).pc = 1
    /\ \/ /\ Top(M).tree.data = "ident"
          /\ Top(M).tree.children[1].text \notin cv.comprehension_vars
       \/ /\ Top(M).tree.data = "member_dot"
          /\ call.schemas = NoSchemas

CheckedName ==
    IF Top(M).tree.data = "ident" THEN Top(M).tree.children[1].text
    ELSE Top(M).tree.children[2].text

\* the handler rejects the name
RejectsName ==
    \E i \in 1..Len(Top(M).ops) :
        /\ Top(M).ops[i].op = "raise"
        /\ Top(M).ops[i].e.type = "InvalidFieldNameError"

\* C23: every identifier and field name is rejected exactly when the active
\* dialect's own rule (charset, maximum length, reserved words) rejects it
C23_ActiveDialectRule ==
    AtNameCheck =>
        (RejectsName <=> dialect_validate_field_name(cv.dialect, CheckedName) # None)

\* a name the active dialect accepts is rejected
C23_ValidNameRejected ==
    /\ AtNameCheck /\ RejectsName
    /\ dialect_validate_field_name(cv.dialect, CheckedName) = None

\* a name the active dialect rejects is accepted
C23_InvalidNameAccepted ==
    /\ AtNameCheck /\ ~RejectsName
    /\ dialect_validate_field_name(cv.dialect, CheckedName) # None

(***************************************************************************)
(* C24: the limit of replace()                                             *)
(***************************************************************************)
\* the handler of a replace() call with a third argument starts
AtReplaceWithLimit ==
    /\ pc = "walk" /\ stack # <<>> /\ exc = None
    /\ IsTree(Top(M).tree) /\ Top(M).pc = 1
    /\ Top(M).tree.data = "member_dot_arg"
    /\ Top(M).tree.children[2].text = "replace"
    /\ Len(Top(M).tree.children) = 3
    /\ Len(Top(M).tree.children[3].children) = 3

ReplaceLimit == Top(M).tree.children[3].children[3]

\* the third argument is the literal -1
LimitIsMinusOne ==
    /\ _get_literal_token(ReplaceLimit) # None
    /\ _get_literal_token(ReplaceLimit) = Tok("INT_LIT", "-1")

RendersReplace == Top(M).ops[1] = W("REPLACE(")

RejectsLimit ==
    /\ Top(M).ops[1].op = "raise"
    /\ Top(M).ops[1].e.type = "UnsupportedOperationError"

\* C24: replace() with a third argument renders REPLACE only when that
\* argument is the literal -1; for every other third argument, an integer
\* literal or not a literal, it raises UnsupportedOperationError
C24_OnlyMinusOne ==
    AtReplaceWithLimit =>
        IF LimitIsMinusOne THEN RendersReplace ELSE RejectsLimit

\* a third argument that is no integer literal gives an unlimited REPLACE
C24_UnlimitedForNonLiteral ==
    AtReplaceWithLimit /\ ~LimitIsMinusOne /\ RendersReplace

(***************************************************************************)
(* C25: ReDoS by quantified alternation                                    *)
(***************************************************************************)
\* the handler of x.matches('...') with a string literal pattern starts
AtMatchesLiteral ==
    /\ pc = "walk" /\ stack # <<>> /\ exc = None
    /\ IsTree(Top(M).tree) /\ Top(M).pc = 1
    /\ Top(M).tree.data = "member_dot_arg"
    /\ Top(M).tree.children[2].text = "matches"
    /\ Len(Top(M).tree.children) = 3
    /\ Len(Top(M).tree.children[3].children) = 1
    /\ _get_literal_token(Top(M).tree.children[3].children[1]) # None
    /\ _is_string_token(_get_literal_token(Top(M).tree.children[3].children[1]))

MatchedPattern == StringValue(_get_literal_token(Top(M).tree.children[3].children[1]))

RejectsPattern ==
    /\ Top(M).ops[1].op = "raise"
    /\ Top(M).ops[1].e.type = "InvalidRegexPatternError"

\* C25: every pattern with a parenthesized alternation immediately followed by
\* a quantifier is rejected with InvalidRegexPatternError, by the regex
\* converter and so by matches() on the dialect that uses it
C25_QuantifiedAlternationRejected ==
    (AtMatchesLiteral /\ _REDOS_QUANTIFIED_ALTERNATION(MatchedPattern)) =>
        /\ "err" \in DOMAIN convert_re2_to_posix(MatchedPattern)
        /\ convert_re2_to_posix(MatchedPattern).err.type = "InvalidRegexPatternError"
        /\ cv.dialect = "postgresql" => RejectsPattern

\* a quantified alternation is converted and rendered
C25_QuantifiedAlternationAccepted ==
    /\ AtMatchesLiteral /\ _REDOS_QUANTIFIED_ALTERNATION(MatchedPattern)
    /\ "pattern" \in DOMAIN convert_re2_to_posix(MatchedPattern)

(***************************************************************************)
(* C26: field chains below a JSON column                                   *)
(***************************************************************************)
RECURSIVE ChainRoot(_)
\* the node a chain of field accesses starts from
ChainRoot(node) ==
    LET n == SkipMemberPrimary(node) IN
    IF IsTree(n) /\ n.data = "member_dot" THEN ChainRoot(n.children[1]) ELSE n

RECURSIVE ChainNames(_)
\* the field names of the chain in source order: col, k1, ..., kn
ChainNames(node) ==
    LET n == SkipMemberPrimary(node) IN
    IF IsTree(n) /\ n.data = "member_dot"
    THEN ChainNames(n.children[1]) \o <<n.children[2].text>>
    ELSE <<>>

\* the handler of the outermost access of a chain root.col.k1...kn starts
AtFieldChain ==
    /\ pc = "walk" /\ stack # <<>> /\ exc = None
    /\ IsTree(Top(M).tree) /\ Top(M).pc = 1
    /\ Top(M).tree.data = "member_dot"
    /\ IsTree(ChainRoot(Top(M).tree)) /\ ChainRoot(Top(M).tree).data = "ident"

ChainTable == ChainRoot(Top(M).tree).children[1].text
ChainKeys == ChainNames(Top(M).tree)

\* the schema of the root marks col as JSON or JSONB
ColMarkedJson ==
    /\ ChainTable \in DOMAIN call.schemas
    /\ ChainKeys[1] \in DOMAIN call.schemas[ChainTable]
    /\ \/ call.schemas[ChainTable][ChainKeys[1]].is_json
       \/ call.schemas[ChainTable][ChainKeys[1]].is_jsonb

RECURSIVE JsonRendering(_, _, _)
\* root.col, then the accessors of the first n keys: the object accessor
\* for all but the n-th when the n-th is the last of the chain
JsonRendering(d, keys, n) ==
    IF n = 1 THEN <<V(ChainRoot(Top(M).tree)), W("." \o keys[1])>>
    ELSE write_json_field_access(d, JsonRendering(d, keys, n - 1), keys[n],
                                 n = Len(keys))

\* C26: for a chain root.col.k1...kn (n >= 1) with col marked JSON the steps
\* are root.col, the object accessor for k1..k(n-1) in source order and the
\* text accessor for kn, once and last; with col not marked JSON the chain
\* is a plain dotted access
C26_JsonChain ==
    AtFieldChain =>
        IF ColMarkedJson
        THEN Len(ChainKeys) >= 2 =>
                Top(M).ops = JsonRendering(cv.dialect, ChainKeys, Len(ChainKeys))
        ELSE (/\ _validate_field_in_schema(cv, ChainTable, ChainKeys[1]) = None
              /\ validate_field_name(ChainKeys[Len(ChainKeys)]) = None) =>
                Top(M).ops = <<V(Top(M).tree.children[1]), W("."),
                               W(ChainKeys[Len(ChainKeys)])>>

\* a chain of three keys below a JSON column is rendered
C26_Witness ==
    /\ AtFieldChain /\ ColMarkedJson /\ Len(ChainKeys) = 4
    /\ cv.dialect = "bigquery"
    /\ Top(M).ops[1] = W("JSON_VALUE(")

\* a chain below a column not marked JSON is rendered
C26_WitnessPlain ==
    /\ AtFieldChain /\ ~ColMarkedJson /\ Len(ChainKeys) = 3
    /\ Top(M).ops = <<V(Top(M).tree.children[1]), W("."), W("k")>>

(***************************************************************************)
(* C27: the numeric cast of a JSON operand                                 *)
(***************************************************************************)
\* the handler of a comparison lhs op rhs starts
AtComparison ==
    /\ pc = "walk" /\ stack # <<>> /\ exc = None
    /\ IsTree(Top(M).tree) /\ Top(M).pc = 1
    /\ Top(M).tree.data = "relation" /\ Len(Top(M).tree.children) = 2
    /\ IsTree(Top(M).tree.children[1])
    /\ Top(M).tree.children[1].data \in
          {"relation_lt", "relation_le", "relation_gt", "relation_ge",
           "relation_eq", "relation_ne"}

CmpLhs == Top(M).tree.children[1].children[1]
CmpRhs == Top(M).tree.children[2]

\* the operand is a path root.col.k1...kn (n >= 1) below a JSON column,
\* which is rendered with the text accessor
JsonTextOperand(e) ==
    LET node == SkipChain(e) IN
    /\ IsTree(node) /\ node.data = "member_dot"
    /\ IsTree(ChainRoot(node)) /\ ChainRoot(node).data = "ident"
    /\ Len(ChainNames(node)) >= 2
    /\ ChainRoot(node).children[1].text \in DOMAIN call.schemas
    /\ LET fields == call.schemas[ChainRoot(node).children[1].text]
           col == ChainNames(node)[1]
       IN col \in DOMAIN fields /\ (fields[col].is_json \/ fields[col].is_jsonb)

NumericLiteralOperand(e) ==
    /\ _get_literal_token(e) # None
    /\ _get_literal_token(e).type \in {"INT_LIT", "UINT_LIT", "FLOAT_LIT"}

\* the steps wrap the operand x, in parentheses, in something written
CastAround(x) ==
    /\ \A i \in 1..Len(Top(M).ops) : Top(M).ops[i].op \in {"write", "visit"}
    /\ \E i \in 1..(Len(Top(M).ops) - 2) :
          /\ Top(M).ops[i] = W("(")
          /\ Top(M).ops[i + 1] = V(x)
          /\ Top(M).ops[i + 2] = W(")")
    /\ Len(Top(M).ops) > 5

\* the steps are operands and words only, nothing is wrapped
NoCast ==
    /\ \A i \in 1..Len(Top(M).ops) : Top(M).ops[i].op \in {"write", "visit"}
    /\ Len(Top(M).ops) \in {2, 3}
    /\ Top(M).ops[1].op = "visit"

\* C27: a comparison writes a numeric cast exactly when one operand is a JSON
\* text extraction and the other a numeric literal; the cast wraps the JSON
\* operand only, on either side, and the literal is rendered as it is
C27_CastJsonAgainstNumber ==
    AtComparison =>
        IF JsonTextOperand(CmpLhs) /\ NumericLiteralOperand(CmpRhs)
        THEN CastAround(CmpLhs) /\ Top(M).ops[Len(Top(M).ops)] = V(CmpRhs)
        ELSE IF JsonTextOperand(CmpRhs) /\ NumericLiteralOperand(CmpLhs)
        THEN CastAround(CmpRhs) /\ Top(M).ops[1] = V(CmpLhs)
        ELSE NoCast

\* a JSON text extraction compared with a number fails outside the
\* conversion errors
C27_CastFails ==
    /\ AtComparison
    /\ JsonTextOperand(CmpLhs) /\ NumericLiteralOperand(CmpRhs)
    /\ Top(M).ops[1].op = "raise"

\* a cast is written around an operand that is no JSON text extraction
C27_CastOfColumn ==
    /\ AtComparison
    /\ ~JsonTextOperand(CmpLhs) /\ ~JsonTextOperand(CmpRhs)
    /\ CastAround(CmpLhs)

(***************************************************************************)
(* C28: the depth counters are restored                                    *)
(***************************************************************************)
\* the macro handlers on the stack that have entered _visit_comprehension's
\* try block
OpenMacros ==
    {i \in 1..Len(stack) :
        /\ IsMacroCall(stack[i].tree)
        /\ stack[i].ops # <<>> /\ stack[i].ops[1] = IncComp
        /\ stack[i].pc > 1}

\* C28: the recursion depth is the number of _visit_child calls that have
\* not returned and the comprehension depth the number of macros that have
\* not returned, on normal return and while an error unwinds; both are 0
\* when the conversion ends; and a limit error is raised only with that
\* many calls or macros open, however many siblings came before
C28_CountersRestored ==
    /\ (pc = "walk" /\ stack # <<>>) =>
          /\ cv.depth = Len(stack) - 1
          /\ cv.comprehension_depth = Cardinality(OpenMacros)
    /\ ((pc = "walk" /\ stack = <<>>) \/ (pc = "done" /\ cv # None)) =>
          /\ cv.depth = 0
          /\ cv.comprehension_depth = 0
    /\ (pc = "walk" /\ stack # <<>> /\ Top(M).ops = <<>>
            /\ InFlight("MaxDepthExceededError")) =>
          Len(stack) - 1 > call.max_depth
    /\ (pc = "walk" /\ stack # <<>> /\ Top(M).pc = 1 /\ IsMacroCall(Top(M).tree)
            /\ InFlight("MaxComprehensionDepthExceededError")) =>
          Cardinality(EnclosingMacros) >= MAX_COMPREHENSION_DEPTH

\* five sibling macros have been converted, and the counters are 0
C28_Witness ==
    /\ pc = "done" /\ Returned
    /\ call.tree = At(1, And(And(And(And(Exists1("a"), Exists1("b")), Exists1("c")),
                                Exists1("d")), Exists1("e")))
    /\ cv.depth = 0 /\ cv.comprehension_depth = 0

\* an error raised inside the third of four sibling macros has left the
\* conversion, and the counters are 0
C28_WitnessError ==
    /\ pc = "done" /\ RaisedWith("InvalidFieldNameError")
    /\ call.tree \in {At(1, e) : e \in SiblingExprs}
    /\ cv.depth = 0 /\ cv.comprehension_depth = 0

(***************************************************************************)
(* C29: the loop variable and the macro's source expression                *)
(***************************************************************************)
\* the handler of the source expression of a macro starts, and no macro
\* around that macro is open
AtMacroSource ==
    /\ pc = "walk" /\ Len(stack) >= 2 /\ exc = None
    /\ Top(M).pc = 1
    /\ IsMacroCall(stack[Len(stack) - 1].tree)
    /\ EnclosingMacros = {Len(stack) - 1}
    /\ Len(stack[Len(stack) - 1].tree.children) = 3
    /\ Top(M).tree = stack[Len(stack) - 1].tree.children[1]
    /\ \A i \in DOMAIN stack[Len(stack) - 1].tree.children[3].children :
          stack[Len(stack) - 1].tree.children[3].children[i] # Top(M).tree

\* the name of the loop variable of the macro whose source is rendered
LoopVariable == _get_root_ident(stack[Len(stack) - 1].tree.children[3].children[1])

\* C29: the source expression of a macro is rendered with the loop variable
\* unbound, so a source rooted at an identifier of that name is validated
\* as an identifier and, under validate_schema, against the schema
C29_SourceUnbound ==
    AtMacroSource => LoopVariable \notin cv.comprehension_vars

\* the source `select` of select.exists(select, ...) is written without
\* identifier validation
C29_SourceNotValidated ==
    /\ pc = "walk" /\ stack # <<>> /\ exc = None /\ Top(M).pc = 1
    /\ Top(M).tree = Ident("select")
    /\ Top(M).ops = <<W("select")>>
    /\ \E i \in EnclosingMacros :
          stack[i].ops[stack[i].pc] = V(stack[i].tree.children[1])

C30_Suppressed ==
    /\ Analyzed
    /\ DetectedPatterns = <<IndexPattern("name", "COMPARISON", "name"),
                            IndexPattern("name", "REGEX_MATCH", "name")>>
    /\ RetainedPatterns = <<IndexPattern("name", "REGEX_MATCH", "name")>>
    /\ AdviceFor("COMPARISON", "name") = "art"
    /\ AdviceFor("REGEX_MATCH", "name") = "none"
    /\ Recommendations = <<>>

====
